---- MODULE Spec2Model ----
(***************************************************************************)
(* The API gateway of the captcha platform: the gin middleware chain       *)
(* (Recovery, Logger, RequestID, CORS, SecurityHeaders), the /api/v1       *)
(* rate limiters (Redis and in-memory), the authenticators (AuthRequired,  *)
(* APIKeyOrJWTAuth, validateJWT) and the reverse proxy                     *)
(* (ProxyHandler, ServiceProxy.ProxyRequest); and the identity service     *)
(* behind it: its tokens (pkg/jwt), its AuthRequired middleware and its    *)
(* api_keys table (AuthService, APIKeyRepository).                         *)
(*                                                                         *)
(* Strings that the code parses are sequences of atoms: the header value   *)
(* "Bearer h.p.s" is <<"Bearer", " ", "h", ".", "p", ".", "s">>, the empty *)
(* string is <<>>.  Time is a clock of ticks of 30 s.                      *)
(***************************************************************************)
EXTENDS Integers, Sequences, FiniteSets, TLC

VARIABLES
    cfg,        \* *config.Config after Load, plus gin's mode and the Redis client
    now,        \* the clock (time.Now / the Redis server's clock), in ticks
    clients,    \* RateLimiterMemory: map[string]*client
    redisStore, \* the Redis keys rate_limit:<ip>: value and expiry
    inflight,   \* concurrent requests inside the rate limiter (limiter specification)
    admits,     \* history: <<client key, time>> of every request the limiter let pass
    served,     \* number of requests taken so far
    last,       \* the limiter's latest answer: client, count, status, Remaining header
    c,          \* *gin.Context of the request in the pipeline (pipeline specification)
    srv,        \* the process: where main is, the listener, the Redis client, the exit
    ident       \* the identity service: the api_keys table, the calls in progress, the
                \* tokens handed out, the latest answer (identity specification)

vars == <<cfg, now, clients, redisStore, inflight, admits, served, last, c, srv, ident>>

-----------------------------------------------------------------------------
(* Bounds of the model *)

MaxTime == 5
MaxServed == 2
MaxLimited == 3
MaxRequests == 2
MaxWindow == 4

(* time.Minute in clock ticks of 30 s *)
Minute == 2

-----------------------------------------------------------------------------
(* Strings *)

Str(s) == <<s>>

Empty == <<>>

RECURSIVE Digits(_)
Digits(n) == IF n < 10 THEN <<n>> ELSE Digits(n \div 10) \o <<n % 10>>

DigitChar(d) == <<"0", "1", "2", "3", "4", "5", "6", "7", "8", "9">>[d + 1]

\* strconv.Itoa
intToString(n) ==
    LET ds == Digits(IF n < 0 THEN -n ELSE n)
        s == [i \in 1..Len(ds) |-> DigitChar(ds[i])]
    IN IF n < 0 THEN <<"-">> \o s ELSE s

\* strconv.FormatUint(n, 10)
uintToString(n) == [i \in 1..Len(Digits(n)) |-> DigitChar(Digits(n)[i])]

\* strings.ToLower on one atom
LowerAtom(a) ==
    CASE a = "Bearer" -> "bearer"
      [] a = "BEARER" -> "bearer"
      [] a = "Basic" -> "basic"
      [] OTHER -> a

ToLower(s) == [i \in 1..Len(s) |-> LowerAtom(s[i])]

\* index of the first occurrence of sep in s, 0 when there is none
RECURSIVE IndexFrom(_, _, _)
IndexFrom(s, sep, i) ==
    IF i > Len(s) THEN 0
    ELSE IF s[i] = sep THEN i
    ELSE IndexFrom(s, sep, i + 1)

\* strings.SplitN(s, sep, 2)
SplitN2(s, sep) ==
    LET i == IndexFrom(s, sep, 1)
    IN IF i = 0 THEN <<s>> ELSE <<SubSeq(s, 1, i - 1), SubSeq(s, i + 1, Len(s))>>

\* strings.Split(s, sep)
RECURSIVE Split(_, _)
Split(s, sep) ==
    LET i == IndexFrom(s, sep, 1)
    IN IF i = 0 THEN <<s>>
       ELSE <<SubSeq(s, 1, i - 1)>> \o Split(SubSeq(s, i + 1, Len(s)), sep)

-----------------------------------------------------------------------------
(* http.Header, one value per name *)

NoHeaders == [k \in {} |-> Empty]

\* Header.Get / c.GetHeader: "" when the header is absent
Get(h, k) == IF k \in DOMAIN h THEN h[k] ELSE Empty

\* Header.Set
Set(h, k, v) == [x \in DOMAIN h \cup {k} |-> IF x = k THEN v ELSE h[x]]

\* Header.Del
Del(h, k) == [x \in DOMAIN h \ {k} |-> h[x]]

\* gin's Context.Header: an empty value deletes the header
SetOrDelete(h, k, v) == IF v = Empty THEN Del(h, k) ELSE Set(h, k, v)

\* a loop of Set calls over the entries of src
SetAll(h, src) == [x \in DOMAIN h \cup DOMAIN src |-> IF x \in DOMAIN src THEN src[x] ELSE h[x]]

\* a loop of gin Context.Header calls over the entries of src
HeaderAll(h, src) ==
    [x \in (DOMAIN h \cup DOMAIN src) \ {k \in DOMAIN src : src[k] = Empty} |->
        IF x \in DOMAIN src THEN src[x] ELSE h[x]]

-----------------------------------------------------------------------------
(* Configuration: config.Load and the start of main *)

IPs == {Str("10.0.0.1"), Str("10.0.0.2")}

\* the process while main waits on <-quit: the listener accepts, the Redis client
\* (when NewRedisClient gave one) is open, nothing has exited
Serving(redis) ==
    [pc |-> "serving", env |-> <<>>, secret |-> <<>>, listener |-> "open",
     redis |-> IF redis THEN "open" ELSE "none", exit |-> -1, fatal |-> FALSE, panics |-> 0]
    \* pc: where main is; env: JWT_SECRET in the environment; secret: cfg.JWT.Secret;
    \* exit: the exit code, -1 while the process runs; fatal: log.Fatal was called;
    \* panics: how many panics gin.Recovery has recovered

\* gin.SetMode(gin.ReleaseMode) when cfg.Environment is "production"
GinMode(environment) == IF environment = "production" THEN "release" ELSE "debug"

\* the config snapshot: Requests and Window come from the environment,
\* redis is whether NewRedisClient returned a client
Config(environment, redis, requests, window) ==
    [Environment |-> environment, ginMode |-> GinMode(environment),
     redis |-> redis, Requests |-> requests, Window |-> window,
     AllowedOrigins |-> <<Str("http://localhost:3000")>>]

-----------------------------------------------------------------------------
(* RateLimiterMemory *)

NoClients == [k \in {} |-> [count |-> 0, lastSeen |-> 0]]

\* max(0, .) as the two limiters clamp the remaining allowance
ClampRemaining(remaining) == IF remaining < 0 THEN 0 ELSE remaining

\* the critical section of RateLimiterMemory for a request of client ip at time t
MemoryLimit(cl, ip, t, maxRequests) ==
    IF ip \in DOMAIN cl
    THEN LET e == IF t - cl[ip].lastSeen > Minute
                  THEN [count |-> 1, lastSeen |-> t]
                  ELSE [count |-> cl[ip].count + 1, lastSeen |-> cl[ip].lastSeen]
         IN [clients |-> [cl EXCEPT ![ip] = e],
             limit |-> maxRequests,
             remaining |-> ClampRemaining(maxRequests - e.count),
             abort |-> e.count > maxRequests]
    ELSE [clients |-> [x \in DOMAIN cl \cup {ip} |->
                          IF x = ip THEN [count |-> 1, lastSeen |-> t] ELSE cl[x]],
          limit |-> maxRequests,
          remaining |-> maxRequests - 1,
          abort |-> FALSE]

\* the cleanup goroutine's pass over the map
SweepClients(cl, t) == [x \in {k \in DOMAIN cl : ~(t - cl[k].lastSeen > Minute * 2)} |-> cl[x]]

-----------------------------------------------------------------------------
(* RateLimiterRedis and the Redis commands it pipelines *)

NoKeys == [k \in {} |-> [val |-> 0, exp |-> -1]]

\* key := "rate_limit:" + c.ClientIP()
RateKey(ip) == Str("rate_limit:") \o ip

\* the keys that have not expired at time t (exp = -1: no expiry set)
Live(store, t) == [k \in {x \in DOMAIN store : store[x].exp = -1 \/ t < store[x].exp} |-> store[k]]

\* INCR key
Incr(store, key) ==
    IF key \in DOMAIN store
    THEN [store EXCEPT ![key].val = @ + 1]
    ELSE [x \in DOMAIN store \cup {key} |-> IF x = key THEN [val |-> 1, exp |-> -1] ELSE store[x]]

\* EXPIRE key window
Expire(store, key, window, t) ==
    IF key \in DOMAIN store THEN [store EXCEPT ![key].exp = t + window] ELSE store

\* what RateLimiterRedis does with the count once pipe.Exec returned no error
RedisVerdict(count, maxRequests, window) ==
    [limit |-> maxRequests,
     remaining |-> ClampRemaining(maxRequests - count),
     reset |-> window * 30,
     abort |-> count > maxRequests]

-----------------------------------------------------------------------------
(* Bearer tokens.  A token is header "." payload "." signature; the atoms of
   the model name what the base64url segments decode to. *)

\* cfg.JWT.Secret
Secret == "your-secret-key-min-32-characters-long"

\* the alg field of a token header
TokenAlg(h) ==
    CASE h = "hdrHS256" -> "HS256"
      [] h = "hdrNone" -> "none"
      [] h = "hdrRS256" -> "RS256"
      [] OTHER -> "undecodable"

\* the claims a payload segment decodes to; exp in clock ticks
TokenClaims(p) ==
    CASE p = "payloadAlice" ->
            [ok |-> TRUE, UserID |-> 7, Email |-> Str("alice@example.com"), Role |-> Str("user"), exp |-> 100]
      [] p = "payloadAliceExpired" ->
            [ok |-> TRUE, UserID |-> 7, Email |-> Str("alice@example.com"), Role |-> Str("user"), exp |-> 0]
      [] p = "payloadAliceRefresh" ->
            \* no email and no role in the JSON: the fields keep their zero value
            [ok |-> TRUE, UserID |-> 7, Email |-> Empty, Role |-> Empty, exp |-> 200]
      [] OTHER ->
            [ok |-> FALSE, UserID |-> 0, Email |-> Empty, Role |-> Empty, exp |-> 0]

\* whether sig is the HMAC-SHA256 of the token's header and payload under secret:
\* the atom "sigSecret" stands for the MAC under cfg.JWT.Secret, any other for a
\* MAC under some other key or for garbage
HMACVerifies(sig, secret) == sig = "sigSecret" /\ secret = Secret

NoClaims == [UserID |-> 0, Email |-> Empty, Role |-> Empty]

\* validateJWT decoding the payload of a well-formed token without verifying it
validateJWTDecoding(tokenString, secret) ==
    LET parts == Split(tokenString, ".")
    IN IF Len(parts) # 3
       THEN [err |-> TRUE, claims |-> NoClaims]
       ELSE LET cl == IF Len(parts[2]) = 1 THEN TokenClaims(parts[2][1]) ELSE TokenClaims("")
            IN [err |-> FALSE,
                claims |-> [UserID |-> cl.UserID, Email |-> cl.Email, Role |-> cl.Role]]

\* gateway middleware validateJWT: (claims, err)
validateJWT(tokenString, secret) ==
    LET parts == Split(tokenString, ".")
    IN IF Len(parts) # 3
       THEN [err |-> TRUE, claims |-> NoClaims]
       ELSE [err |-> FALSE, claims |-> [UserID |-> 0, Email |-> Empty, Role |-> Empty]]

\* identity service jwt.ValidateAccessToken at time t: (claims, err)
ValidateAccessToken(tokenString, secret, t) ==
    LET parts == Split(tokenString, ".")
    IN IF Len(parts) # 3 \/ \E i \in 1..3 : Len(parts[i]) # 1
       THEN [err |-> TRUE, claims |-> NoClaims]
       ELSE LET alg == TokenAlg(parts[1][1])
                cl == TokenClaims(parts[2][1])
            IN IF alg = "HS256" /\ cl.ok /\ HMACVerifies(parts[3][1], secret) /\ cl.exp > t
               THEN [err |-> FALSE,
                     claims |-> [UserID |-> cl.UserID, Email |-> cl.Email, Role |-> cl.Role]]
               ELSE [err |-> TRUE, claims |-> NoClaims]

-----------------------------------------------------------------------------
(* The identity service: its tokens, its middleware, its api_keys table *)

Payloads == {"payloadAlice", "payloadAliceExpired", "payloadAliceRefresh"}

\* the names of the JSON members of a payload: AccessClaims and RefreshClaims
\* both embed jwt.RegisteredClaims
PayloadFields(p) ==
    IF p = "payloadAliceRefresh" THEN {"user_id", "iat", "exp", "nbf", "iss"}
    ELSE {"user_id", "email", "role", "iat", "exp", "nbf", "iss", "sub"}

\* the claims a payload decodes to as RefreshClaims: the members the struct
\* does not have are dropped
RefreshTokenClaims(p) ==
    [ok |-> TokenClaims(p).ok, UserID |-> TokenClaims(p).UserID, exp |-> TokenClaims(p).exp]

\* token.SignedString([]byte(secret)): the signature segment
SignedString(secret) == IF secret = Secret THEN <<"sigSecret">> ELSE <<"sigOther">>

\* s.jwtConfig.ExpiresIn and s.jwtConfig.RefreshExpiresIn, in clock ticks
ExpiresIn == 100
RefreshExpiresIn == 200

\* jwt.GenerateAccessToken at time t
GenerateAccessToken(userID, email, role, secret, expiry, t) ==
    LET p == CHOOSE x \in Payloads :
                 /\ "email" \in PayloadFields(x)
                 /\ TokenClaims(x) = [ok |-> TRUE, UserID |-> userID, Email |-> email,
                                      Role |-> role, exp |-> t + expiry]
    IN <<"hdrHS256", ".", p, ".">> \o SignedString(secret)

\* jwt.GenerateRefreshToken at time t
GenerateRefreshToken(userID, secret, expiry, t) ==
    LET p == CHOOSE x \in Payloads :
                 /\ "email" \notin PayloadFields(x)
                 /\ RefreshTokenClaims(x) = [ok |-> TRUE, UserID |-> userID, exp |-> t + expiry]
    IN <<"hdrHS256", ".", p, ".">> \o SignedString(secret)

\* jwt.ValidateRefreshToken at time t: (claims, err)
ValidateRefreshToken(tokenString, secret, t) ==
    LET parts == Split(tokenString, ".")
    IN IF Len(parts) # 3 \/ \E i \in 1..3 : Len(parts[i]) # 1
       THEN [err |-> TRUE, claims |-> [UserID |-> 0]]
       ELSE LET alg == TokenAlg(parts[1][1])
                cl == RefreshTokenClaims(parts[2][1])
            IN IF alg = "HS256" /\ cl.ok /\ HMACVerifies(parts[3][1], secret) /\ cl.exp > t
               THEN [err |-> FALSE, claims |-> [UserID |-> cl.UserID]]
               ELSE [err |-> TRUE, claims |-> [UserID |-> 0]]

\* the users table
Users == [id \in {7} |-> [ID |-> 7, Email |-> Str("alice@example.com"), Role |-> Str("user"),
                         IsActive |-> TRUE]]

NoTokens == [err |-> "invalid or expired token", AccessToken |-> Empty, RefreshToken |-> Empty]

\* AuthService.RefreshToken at time t
RefreshToken(refreshToken, secret, t) ==
    LET v == ValidateRefreshToken(refreshToken, secret, t)
    IN IF v.err THEN NoTokens
       ELSE IF v.claims.UserID \notin DOMAIN Users THEN [NoTokens EXCEPT !.err = "user not found"]
       ELSE LET user == Users[v.claims.UserID]
            IN IF ~user.IsActive THEN [NoTokens EXCEPT !.err = "user account is not active"]
               ELSE [err |-> "",
                     AccessToken |-> GenerateAccessToken(user.ID, user.Email, user.Role, secret,
                                                         ExpiresIn, t),
                     RefreshToken |-> GenerateRefreshToken(user.ID, secret, RefreshExpiresIn, t)]

DigitAtoms == {DigitChar(d) : d \in 0..9}

\* the loop of parseUint64 from the value n on: (ok, n), with n what *result holds
\* afterwards (untouched, 0, when a character is no digit)
RECURSIVE ParseDigits(_, _)
ParseDigits(s, n) ==
    IF s = <<>> THEN [ok |-> TRUE, n |-> n]
    ELSE IF Head(s) \notin DigitAtoms THEN [ok |-> FALSE, n |-> 0]
    ELSE ParseDigits(Tail(s), n * 10 + (CHOOSE d \in 0..9 : DigitChar(d) = Head(s)))

\* parseUint64: the error it returns is nil on every path
parseUint64(s) == [n |-> ParseDigits(s, 0).n, err |-> FALSE]

NoUser == [k \in {} |-> Empty]

\* the identity service's middleware AuthRequired(secret) on the headers of a
\* request at time t: status 0 stands for c.Next() with the context keys Keys
ServiceAuthRequired(header, secret, t) ==
    LET userIDHeader == Get(header, "X-User-ID")
        userEmailHeader == Get(header, "X-User-Email")
        userRoleHeader == Get(header, "X-User-Role")
        authHeader == Get(header, "Authorization")
        parts == SplitN2(authHeader, " ")
        reject(message) == [status |-> 401, message |-> message, Keys |-> NoUser]
    IN IF userIDHeader # Empty /\ userEmailHeader # Empty /\ ~parseUint64(userIDHeader).err
       THEN [status |-> 0, message |-> "",
             Keys |-> [user_id |-> parseUint64(userIDHeader).n, user_email |-> userEmailHeader,
                       user_role |-> userRoleHeader]]
       ELSE IF authHeader = Empty THEN reject("Authorization header is required")
       ELSE IF Len(parts) # 2 \/ ToLower(parts[1]) # Str("bearer")
            THEN reject("Invalid authorization header format")
       ELSE LET v == ValidateAccessToken(parts[2], secret, t)
            IN IF v.err THEN reject("Invalid or expired token")
               ELSE [status |-> 0, message |-> "",
                     Keys |-> [user_id |-> v.claims.UserID, user_email |-> v.claims.Email,
                               user_role |-> v.claims.Role]]

\* the routes of the identity service behind AuthRequired
ServiceProtected(method, path) ==
    \/ method \in {"GET", "PUT"} /\ path = <<"api", "v1", "auth", "me">>
    \/ method = "PUT" /\ path = <<"api", "v1", "auth", "me", "password">>
    \/ method \in {"GET", "POST"} /\ path = <<"api", "v1", "api-keys">>
    \/ method = "DELETE" /\ Len(path) = 4 /\ SubSeq(path, 1, 3) = <<"api", "v1", "api-keys">>
       /\ path[4] # ""

MaxAPIKeysPerUser == 10

\* APIKeyRepository.CountByUserID: SELECT COUNT(*) ... WHERE user_id = ? AND is_active = TRUE
CountByUserID(rows, userID) ==
    Cardinality({i \in 1..Len(rows) : rows[i].user_id = userID /\ rows[i].is_active})

\* APIKeyRepository.Create: INSERT INTO api_keys (...) VALUES (..., TRUE, ...)
Create(rows, userID) == Append(rows, [user_id |-> userID, is_active |-> TRUE])

\* APIKeyRepository.Delete: UPDATE api_keys SET is_active = FALSE WHERE id = ? AND user_id = ?
Delete(rows, id, userID) ==
    IF id \in 1..Len(rows) /\ rows[id].user_id = userID
    THEN [rows |-> [rows EXCEPT ![id].is_active = FALSE], err |-> ""]
    ELSE [rows |-> rows, err |-> "api key not found"]

Callers == 1..2

IdleCall == [pc |-> "idle", user |-> 0, count |-> 0]

NoResult == [op |-> "", presented |-> Empty, err |-> "", status |-> 0, user_id |-> 0]

NoIdentity == [api_keys |-> <<>>, calls |-> [p \in Callers |-> IdleCall], creates |-> 0,
               deletes |-> 0, tokens |-> {}, result |-> NoResult]

-----------------------------------------------------------------------------
(* gin.Context: request, keys, handler chain, response writer *)

\* c.Set
SetKey(keys, k, v) == [x \in DOMAIN keys \cup {k} |-> IF x = k THEN v ELSE keys[x]]

NoKeysSet == [k \in {} |-> Empty]

NoBody == <<>>

\* gin.H{"error": kind, "message": message} rendered as JSON
ErrorBody(kind, message) == <<"json", kind, message>>

NewWriter == [Header |-> NoHeaders, status |-> 0, written |-> 0, body |-> NoBody]

\* the response writer commits a status line and a body
Write(w, code, body) ==
    [w EXCEPT !.status = IF w.written = 0 THEN code ELSE @,
              !.body = IF w.written = 0 THEN body ELSE @,
              !.written = @ + 1]

\* c.JSON / c.AbortWithStatusJSON: Content-Type is set when it is not yet
WriteJSON(w, code, body) ==
    Write([w EXCEPT !.Header = IF "Content-Type" \in DOMAIN w.Header THEN @
                                ELSE Set(@, "Content-Type", Str("application/json; charset=utf-8"))],
          code, body)

\* c.Data(code, contentType, data): Content-Type is set when contentType is not empty
WriteData(w, code, contentType, body) ==
    Write([w EXCEPT !.Header = IF contentType = Empty THEN @ ELSE Set(@, "Content-Type", contentType)],
          code, body)

\* gin's ClientIP with the engine defaults (every proxy trusted): the forwarded
\* address when the headers carry one, else the socket peer
ClientIP(request) ==
    IF Get(request.Header, "X-Forwarded-For") # Empty THEN Get(request.Header, "X-Forwarded-For")
    ELSE IF Get(request.Header, "X-Real-IP") # Empty THEN Get(request.Header, "X-Real-IP")
    ELSE request.RemoteAddr

\* crypto/sha256 Sum256: the leading bytes of the digest
Sum256(data) ==
    CASE data = Str("cp_live_k1") -> <<171, 9>>
      [] data = Str("cp_live_k2") -> <<4, 222>>
      [] OTHER -> <<227, 176>>

HexDigit(n) == <<"0", "1", "2", "3", "4", "5", "6", "7", "8", "9", "a", "b", "c", "d", "e", "f">>[n + 1]

\* encoding/hex EncodeToString
RECURSIVE EncodeToString(_)
EncodeToString(bytes) ==
    IF bytes = <<>> THEN <<>>
    ELSE <<HexDigit(Head(bytes) \div 16), HexDigit(Head(bytes) % 16)>> \o EncodeToString(Tail(bytes))

\* uuid.New().String() for the n-th request
NewUUID(n) == Str("uuid-") \o intToString(n)

NoContext ==
    [stage |-> "idle",
     Request |-> [Method |-> "", Path |-> <<>>, RawQuery |-> Empty, RemoteAddr |-> Empty,
                  Header |-> NoHeaders, Body |-> NoBody],
     Keys |-> NoKeysSet, handlers |-> <<>>, Writer |-> NewWriter,
     upstream |-> <<>>, proxy |-> "none", reply |-> <<>>, trace |-> <<>>, log |-> <<>>,
     storeErr |-> FALSE, inbound |-> NoHeaders]
    \* upstream: the requests httpClient.Do was called with; proxy: "sent" while Do
    \* is pending; reply: what came back from httpClient.Do and io.ReadAll; trace: the handlers that ran, each with "next" or "abort";
    \* log: the statuses of the access-log entries; storeErr: pipe.Exec failed;
    \* inbound: the headers as the client sent them

-----------------------------------------------------------------------------
(* The route table of main *)

V1 == <<"api", "v1">>

\* v1.Use(...): the limiter every /api/v1 route starts with
RateLimiter(redis) == IF redis THEN "RateLimiterRedis" ELSE "RateLimiterMemory"

\* router.GET("/health"), and the routes of the groups auth, api-keys and captcha,
\* each with the handlers registered after the global middleware
Routes(redis) ==
    {[Method |-> "GET", Path |-> <<"health">>, handlers |-> <<"Health">>]}
    \cup {[Method |-> "POST", Path |-> V1 \o <<"auth", x>>,
           handlers |-> <<RateLimiter(redis), "ProxyToAuth">>] :
             x \in {"register", "login", "refresh", "logout"}}
    \cup {[Method |-> m, Path |-> V1 \o <<"auth", "me">>,
           handlers |-> <<RateLimiter(redis), "AuthRequired", "ProxyToAuth">>] : m \in {"GET", "PUT"}}
    \cup {[Method |-> "PUT", Path |-> V1 \o <<"auth", "me", "password">>,
           handlers |-> <<RateLimiter(redis), "AuthRequired", "ProxyToAuth">>]}
    \cup {[Method |-> m, Path |-> V1 \o <<"api-keys">>,
           handlers |-> <<RateLimiter(redis), "AuthRequired", "ProxyToAuth">>] : m \in {"GET", "POST"}}
    \cup {[Method |-> "DELETE", Path |-> V1 \o <<"api-keys", ":id">>,
           handlers |-> <<RateLimiter(redis), "AuthRequired", "ProxyToAuth">>]}
    \cup {[Method |-> "POST", Path |-> V1 \o <<"captcha">> \o x,
           handlers |-> <<RateLimiter(redis), "APIKeyOrJWTAuth", "ProxyToCaptcha">>] :
             x \in {<<"solve">>, <<"solve", "batch">>}}
    \cup {[Method |-> x[1], Path |-> V1 \o <<"captcha">> \o x[2],
           handlers |-> <<RateLimiter(redis), "AuthRequired", "ProxyToCaptcha">>] :
             x \in {<<"GET", <<"models">>>>, <<"POST", <<"models", "upload">>>>,
                    <<"POST", <<"train">>>>, <<"GET", <<"train", ":job_id">>>>,
                    <<"GET", <<"logs">>>>, <<"GET", <<"stats">>>>}}

\* a route pattern matches a path: equal segments, a :param matches any one segment
PathMatches(pattern, path) ==
    /\ Len(pattern) = Len(path)
    /\ \A i \in 1..Len(path) :
          pattern[i] = path[i] \/ (pattern[i] \in {":id", ":job_id"} /\ path[i] # "")

\* the routes of a method that match a path
Matching(redis, method, path) ==
    {r \in Routes(redis) : r.Method = method /\ PathMatches(r.Path, path)}

\* a path with its trailing slash removed or added; "/a/" is <<"a", "">>
TrailingSlashToggled(path) ==
    IF path # <<>> /\ path[Len(path)] = ""
    THEN SubSeq(path, 1, Len(path) - 1)
    ELSE Append(path, "")

GlobalMiddleware == <<"Recovery", "Logger", "RequestID", "CORS", "SecurityHeaders">>

\* v1.Use(limiter) moved to router.Use(limiter): the limiter runs for every request
ChainLimitingAll(redis, method, path) ==
    LET hit == Matching(redis, method, path)
    IN IF hit # {} THEN GlobalMiddleware \o (CHOOSE r \in hit : TRUE).handlers
       ELSE IF Matching(redis, method, TrailingSlashToggled(path)) # {}
            THEN <<"RedirectTrailingSlash">>
            ELSE GlobalMiddleware \o <<RateLimiter(redis), "NoRoute">>

\* the handler chain gin builds for a request: router.Use(...) then the route's
\* handlers; when no route matches, the engine of gin.New() redirects a path that
\* matches with its trailing slash toggled, before any middleware, and else runs
\* router.Use(...) and the 404 handler
Chain(redis, method, path) ==
    LET hit == Matching(redis, method, path)
    IN IF hit # {} THEN GlobalMiddleware \o (CHOOSE r \in hit : TRUE).handlers
       ELSE IF Matching(redis, method, TrailingSlashToggled(path)) # {}
            THEN <<"RedirectTrailingSlash">>
            ELSE GlobalMiddleware \o <<"NoRoute">>

-----------------------------------------------------------------------------
(* The rate limiter under concurrent requests *)

Procs == 1..2

IdleProc == [pc |-> "idle", ip |-> Empty, count |-> 0, err |-> FALSE]

NoAnswer == [ip |-> Empty, count |-> 0, err |-> FALSE, status |-> 0, limit |-> Empty,
             remaining |-> Empty]

NoAdmits == [ip \in IPs |-> [t \in 0..MaxTime |-> 0]]

Admit(ip) == admits' = [admits EXCEPT ![ip][now] = @ + 1]

\* a request of client ip goes through RateLimiterMemory, under the mutex
LimitMemory(ip) ==
    /\ ~cfg.redis
    /\ served < MaxLimited
    /\ LET r == MemoryLimit(clients, ip, now, cfg.Requests)
       IN /\ clients' = r.clients
          /\ last' = [ip |-> ip, count |-> r.clients[ip].count, err |-> FALSE,
                      status |-> IF r.abort THEN 429 ELSE 0,
                      limit |-> intToString(r.limit),
                      remaining |-> intToString(r.remaining)]
          /\ IF r.abort THEN UNCHANGED admits ELSE Admit(ip)
    /\ served' = served + 1
    /\ UNCHANGED <<cfg, now, redisStore, inflight, c, srv, ident>>

\* the cleanup goroutine wakes up
Sweep ==
    /\ ~cfg.redis
    /\ clients' = SweepClients(clients, now)
    /\ clients' # clients
    /\ UNCHANGED <<cfg, now, redisStore, inflight, admits, served, last, c, srv, ident>>

\* the goroutine slot a new request runs in: the lowest idle one (0: none)
FreeProc ==
    IF \A q \in Procs : inflight[q].pc # "idle" THEN 0
    ELSE CHOOSE q \in Procs : inflight[q].pc = "idle" /\ \A r \in 1..(q - 1) : inflight[r].pc # "idle"

\* a request of client ip enters RateLimiterRedis and queues INCR and EXPIRE
RedisBegin(p, ip) ==
    /\ cfg.redis
    /\ p = FreeProc
    /\ served < MaxLimited
    /\ inflight' = [inflight EXCEPT ![p] =
           [pc |-> "incr", ip |-> ip, count |-> 0, err |-> FALSE]]
    /\ served' = served + 1
    /\ UNCHANGED <<cfg, now, clients, redisStore, admits, last, c, srv, ident>>

\* the server runs the pipeline's INCR
RedisIncr(p) ==
    /\ inflight[p].pc = "incr"
    /\ redisStore' = Incr(Live(redisStore, now), RateKey(inflight[p].ip))
    /\ inflight' = [inflight EXCEPT ![p].pc = "expire",
                                    ![p].count = redisStore'[RateKey(inflight[p].ip)].val]
    /\ UNCHANGED <<cfg, now, clients, admits, served, last, c, srv, ident>>

\* the server runs the pipeline's EXPIRE
RedisExpire(p) ==
    /\ inflight[p].pc = "expire"
    /\ redisStore' = Expire(Live(redisStore, now), RateKey(inflight[p].ip), cfg.Window, now)
    /\ inflight' = [inflight EXCEPT ![p].pc = "exec"]
    /\ UNCHANGED <<cfg, now, clients, admits, served, last, c, srv, ident>>

\* the round trip fails: store unreachable, a command's error, cancelled context;
\* the commands the server has not run yet are lost
RedisFail(p) ==
    /\ inflight[p].pc \in {"incr", "expire", "exec"}
    /\ ~inflight[p].err
    /\ inflight' = [inflight EXCEPT ![p].pc = "exec", ![p].err = TRUE]
    /\ UNCHANGED <<cfg, now, clients, redisStore, admits, served, last, c, srv, ident>>

\* pipe.Exec has returned: fail open on an error, else compare the count
RedisDecide(p) ==
    /\ inflight[p].pc = "exec"
    /\ LET v == RedisVerdict(inflight[p].count, cfg.Requests, cfg.Window)
           abort == IF inflight[p].err THEN FALSE ELSE v.abort
       IN /\ last' = [ip |-> inflight[p].ip, count |-> inflight[p].count,
                      err |-> inflight[p].err,
                      status |-> IF abort THEN 429 ELSE 0,
                      limit |-> IF inflight[p].err THEN Empty ELSE intToString(v.limit),
                      remaining |-> IF inflight[p].err THEN Empty
                                    ELSE intToString(v.remaining)]
          /\ IF abort THEN UNCHANGED admits ELSE Admit(inflight[p].ip)
    /\ inflight' = [inflight EXCEPT ![p] = IdleProc]
    /\ UNCHANGED <<cfg, now, clients, redisStore, served, c, srv, ident>>

\* 30 s pass; Redis drops the keys whose expiry is reached
Tick ==
    /\ now < MaxTime
    /\ now' = now + 1
    /\ redisStore' = Live(redisStore, now + 1)
    /\ UNCHANGED <<cfg, clients, inflight, admits, served, last, c, srv, ident>>

InitLimiter ==
    /\ cfg \in {Config("development", r, n, w) :
                   r \in BOOLEAN, n \in 0..MaxRequests, w \in {Minute, MaxWindow}}
    /\ now = 0
    /\ clients = NoClients
    /\ redisStore = NoKeys
    /\ inflight = [p \in Procs |-> IdleProc]
    /\ admits = NoAdmits
    /\ served = 0
    /\ last = NoAnswer
    /\ c = NoContext
    /\ srv = Serving(cfg.redis)
    /\ ident = NoIdentity

NextLimiter ==
    \/ \E ip \in IPs : LimitMemory(ip)
    \/ Sweep
    \/ \E p \in Procs, ip \in IPs : RedisBegin(p, ip)
    \/ \E p \in Procs : RedisIncr(p)
    \/ \E p \in Procs : RedisExpire(p)
    \/ \E p \in Procs : RedisFail(p)
    \/ \E p \in Procs : RedisDecide(p)
    \/ Tick

SpecLimiter == InitLimiter /\ [][NextLimiter]_vars

\* the number of requests of client ip let pass during [t, t + w)
RECURSIVE AdmittedIn(_, _, _)
AdmittedIn(ip, t, w) ==
    IF w = 0 \/ t > MaxTime THEN 0 ELSE admits[ip][t] + AdmittedIn(ip, t + 1, w - 1)

(* C1: for every client key and every time window of length W (the configured
   window), at most R requests of that client are answered with a status other
   than 429, on the Redis backend and on the in-memory backend alike.  Stated
   for a positive allowance R. *)
C1_AtMostRPerWindow ==
    cfg.Requests >= 1 =>
        \A ip \in IPs : \A t \in 0..MaxTime : AdmittedIn(ip, t, cfg.Window) <= cfg.Requests

-----------------------------------------------------------------------------
(* The request pipeline: one request at a time through its handler chain *)

PipelineFrame == UNCHANGED <<cfg, now, inflight, admits, last, srv, ident>>

\* the head handler of the chain has run: c.Next() continues, c.Abort() empties the chain
Ran(ctx, name, next) ==
    [ctx EXCEPT !.handlers = IF next THEN Tail(@) ELSE <<>>,
                !.trace = Append(@, <<name, IF next THEN "next" ELSE "abort">>)]

Running(name) == c.stage = "run" /\ c.handlers # <<>> /\ Head(c.handlers) = name /\ c.proxy = "none"

\* the server accepts request r and gin builds its context and handler chain
Arrive(r) ==
    /\ srv.listener = "open"
    /\ c.stage = "idle"
    /\ served < MaxServed
    /\ served' = served + 1
    /\ c' = [NoContext EXCEPT !.stage = "run", !.Request = r, !.inbound = r.Header,
                              !.handlers = Chain(cfg.redis, r.Method, r.Path)]
    /\ UNCHANGED <<clients, redisStore>>
    /\ PipelineFrame

\* ServeHTTP returns the context to the engine's pool
Release ==
    /\ c.stage = "done"
    /\ c' = NoContext
    /\ UNCHANGED <<clients, redisStore, served>>
    /\ PipelineFrame

\* gin.Recovery(): installs the deferred recover and calls c.Next()
Recovery ==
    /\ Running("Recovery")
    /\ c' = Ran(c, "Recovery", TRUE)
    /\ UNCHANGED <<clients, redisStore, served>>
    /\ PipelineFrame

\* middleware.Logger up to c.Next()
Logger ==
    /\ Running("Logger")
    /\ c' = Ran(c, "Logger", TRUE)
    /\ UNCHANGED <<clients, redisStore, served>>
    /\ PipelineFrame

\* middleware.Logger after c.Next(): the access-log entry; the request is over
LoggerPost ==
    /\ c.stage = "run" /\ c.handlers = <<>> /\ c.proxy = "none"
    /\ \E i \in 1..Len(c.trace) : c.trace[i][1] = "Logger"
    /\ c' = [c EXCEPT !.log = Append(@, IF c.Writer.written = 0 THEN 200 ELSE c.Writer.status),
                      !.stage = "done"]
    /\ UNCHANGED <<clients, redisStore, served>>
    /\ PipelineFrame

\* middleware.RequestID
RequestID ==
    /\ Running("RequestID")
    /\ LET inbound == Get(c.Request.Header, "X-Request-ID")
           requestID == IF inbound = Empty THEN NewUUID(served) ELSE inbound
       IN c' = Ran([c EXCEPT !.Keys = SetKey(@, "request_id", requestID),
                             !.Writer.Header = SetOrDelete(@, "X-Request-ID", requestID)],
                   "RequestID", TRUE)
    /\ UNCHANGED <<clients, redisStore, served>>
    /\ PipelineFrame

\* the loop of middleware.CORS over cfg.AllowedOrigins
OriginAllowed(origins, origin) ==
    \E i \in 1..Len(origins) : origins[i] = Str("*") \/ origins[i] = origin

\* middleware.CORS
CORS ==
    /\ Running("CORS")
    /\ LET origin == Get(c.Request.Header, "Origin")
           h0 == c.Writer.Header
           h1 == IF OriginAllowed(cfg.AllowedOrigins, origin) /\ origin # Empty
                 THEN SetOrDelete(h0, "Access-Control-Allow-Origin", origin) ELSE h0
           h2 == SetOrDelete(h1, "Access-Control-Allow-Methods", Str("GET, POST, PUT, DELETE, OPTIONS, PATCH"))
           h3 == SetOrDelete(h2, "Access-Control-Allow-Headers",
                     Str("Accept, Authorization, Content-Type, X-API-Key, X-Request-ID, X-Requested-With"))
           h4 == SetOrDelete(h3, "Access-Control-Allow-Credentials", Str("true"))
           h5 == SetOrDelete(h4, "Access-Control-Max-Age", Str("86400"))
           cc == [c EXCEPT !.Writer.Header = h5]
       IN IF c.Request.Method = "OPTIONS"
          THEN c' = Ran([cc EXCEPT !.Writer = Write(@, 204, NoBody)], "CORS", FALSE)
          ELSE c' = Ran(cc, "CORS", TRUE)
    /\ UNCHANGED <<clients, redisStore, served>>
    /\ PipelineFrame

\* the headers middleware.SecurityHeaders sets in gin mode mode
SecurityHeaderSet(mode) ==
    LET h1 == SetOrDelete(NoHeaders, "X-Content-Type-Options", Str("nosniff"))
        h2 == SetOrDelete(h1, "X-Frame-Options", Str("DENY"))
        h3 == SetOrDelete(h2, "X-XSS-Protection", Str("1; mode=block"))
        h4 == SetOrDelete(h3, "Referrer-Policy", Str("strict-origin-when-cross-origin"))
    IN IF mode = "release"
       THEN SetOrDelete(h4, "Strict-Transport-Security", Str("max-age=31536000; includeSubDomains"))
       ELSE h4

\* middleware.SecurityHeaders
SecurityHeaders ==
    /\ Running("SecurityHeaders")
    /\ c' = Ran([c EXCEPT !.Writer.Header = HeaderAll(@, SecurityHeaderSet(cfg.ginMode))],
                "SecurityHeaders", TRUE)
    /\ UNCHANGED <<clients, redisStore, served>>
    /\ PipelineFrame

\* gin's default 404 handler
NoRoute ==
    /\ Running("NoRoute")
    /\ c' = Ran([c EXCEPT !.Writer = WriteData(@, 404, Str("text/plain"), <<"404 page not found">>)],
                "NoRoute", TRUE)
    /\ UNCHANGED <<clients, redisStore, served>>
    /\ PipelineFrame

\* the engine's redirect to the path with the trailing slash toggled: 301 for GET,
\* 307 for the other methods; no handler of router.Use runs
RedirectTrailingSlash ==
    /\ Running("RedirectTrailingSlash")
    /\ LET code == IF c.Request.Method = "GET" THEN 301 ELSE 307
           w == [c.Writer EXCEPT !.Header = Set(@, "Location",
                                               <<"/">> \o TrailingSlashToggled(c.Request.Path))]
       IN c' = [Ran([c EXCEPT !.Writer = WriteData(w, code, Str("text/html"), <<"redirect">>)],
                    "RedirectTrailingSlash", TRUE)
                EXCEPT !.stage = "done"]
    /\ UNCHANGED <<clients, redisStore, served>>
    /\ PipelineFrame

\* the /health handler
Health ==
    /\ Running("Health")
    /\ c' = Ran([c EXCEPT !.Writer = WriteJSON(@, 200, <<"json", "healthy", "gateway">>)],
                "Health", TRUE)
    /\ UNCHANGED <<clients, redisStore, served>>
    /\ PipelineFrame

\* c.JSON in place of c.AbortWithStatusJSON: the chain goes on after the answer
RespondWithoutAbort(ctx, name, code, kind, message) ==
    Ran([ctx EXCEPT !.Writer = WriteJSON(@, code, ErrorBody(kind, message))], name, TRUE)

\* c.AbortWithStatusJSON(code, gin.H{"error": kind, "message": message})
AbortWithStatusJSON(ctx, name, code, kind, message) ==
    Ran([ctx EXCEPT !.Writer = WriteJSON(@, code, ErrorBody(kind, message))], name, FALSE)

\* the handler of RateLimiterMemory
RateLimiterMemory ==
    /\ Running("RateLimiterMemory")
    /\ LET r == MemoryLimit(clients, ClientIP(c.Request), now, cfg.Requests)
           h1 == SetOrDelete(c.Writer.Header, "X-RateLimit-Limit", intToString(r.limit))
           h2 == SetOrDelete(h1, "X-RateLimit-Remaining", intToString(r.remaining))
           cc == [c EXCEPT !.Writer.Header = h2]
       IN /\ clients' = r.clients
          /\ c' = IF r.abort
                  THEN AbortWithStatusJSON(cc, "RateLimiterMemory", 429, "rate_limit_exceeded",
                                           "Too many requests, please try again later")
                  ELSE Ran(cc, "RateLimiterMemory", TRUE)
    /\ UNCHANGED <<redisStore, served>>
    /\ PipelineFrame

\* how far the pipelined INCR, EXPIRE get: the store after them, the count read, the error
RedisPipeline(store, key, window, t, outcome) ==
    LET s0 == Live(store, t)
        s1 == Incr(s0, key)
        s2 == Expire(s1, key, window, t)
    IN CASE outcome = "unreachable" -> [store |-> s0, count |-> 0, err |-> TRUE]
         [] outcome = "expire-error" -> [store |-> s1, count |-> s1[key].val, err |-> TRUE]
         [] outcome = "cancelled" -> [store |-> s2, count |-> s2[key].val, err |-> TRUE]
         [] OTHER -> [store |-> s2, count |-> s2[key].val, err |-> FALSE]

RedisOutcomes == {"ok", "unreachable", "expire-error", "cancelled"}

\* RateLimiterRedis from count := incr.Val() on: the headers, then 429 or c.Next()
RedisAnswer(ctx, count, maxRequests, window) ==
    LET v == RedisVerdict(count, maxRequests, window)
        h1 == SetOrDelete(ctx.Writer.Header, "X-RateLimit-Limit", intToString(v.limit))
        h2 == SetOrDelete(h1, "X-RateLimit-Remaining", intToString(v.remaining))
        h3 == SetOrDelete(h2, "X-RateLimit-Reset", intToString(v.reset))
        cc == [ctx EXCEPT !.Writer.Header = h3]
    IN IF v.abort
       THEN AbortWithStatusJSON(cc, "RateLimiterRedis", 429, "rate_limit_exceeded",
                                "Too many requests, please try again later")
       ELSE Ran(cc, "RateLimiterRedis", TRUE)

\* the error of pipe.Exec goes unchecked: the count decides also after a failure
RedisLimitIgnoringError(ctx, x, maxRequests, window) ==
    RedisAnswer(ctx, x.count, maxRequests, window)

\* the handler of RateLimiterRedis once pipe.Exec has returned x: fail open on an error
RedisLimit(ctx, x, maxRequests, window) ==
    IF x.err
    THEN Ran(ctx, "RateLimiterRedis", TRUE)
    ELSE RedisAnswer(ctx, x.count, maxRequests, window)

\* the handler of RateLimiterRedis
RateLimiterRedis ==
    /\ Running("RateLimiterRedis")
    /\ \E outcome \in (IF srv.redis = "closed" THEN {"unreachable"} ELSE RedisOutcomes) :
          LET x == RedisPipeline(redisStore, RateKey(ClientIP(c.Request)), cfg.Window, now, outcome)
          IN /\ redisStore' = x.store
             /\ c' = [RedisLimit(c, x, cfg.Requests, cfg.Window) EXCEPT !.storeErr = x.err]
    /\ UNCHANGED <<clients, served>>
    /\ PipelineFrame

\* the three c.Set and the three c.Request.Header.Set calls after a token was accepted
WithClaims(ctx, claims) ==
    [ctx EXCEPT !.Keys = SetKey(SetKey(SetKey(@, "user_id", claims.UserID),
                                        "user_email", claims.Email),
                                "user_role", claims.Role),
                !.Request.Header = Set(Set(Set(@, "X-User-ID", uintToString(claims.UserID)),
                                            "X-User-Email", claims.Email),
                                       "X-User-Role", claims.Role)]

\* the handler of middleware.AuthRequired(secret) on context ctx
AuthRequiredOn(ctx, secret) ==
    LET authHeader == Get(ctx.Request.Header, "Authorization")
        parts == SplitN2(authHeader, " ")
    IN IF authHeader = Empty
       THEN AbortWithStatusJSON(ctx, "AuthRequired", 401, "unauthorized",
                                "Authorization header is required")
       ELSE IF Len(parts) # 2 \/ ToLower(parts[1]) # Str("bearer")
       THEN AbortWithStatusJSON(ctx, "AuthRequired", 401, "unauthorized",
                                "Invalid authorization header format")
       ELSE LET v == validateJWT(parts[2], secret)
            IN IF v.err
               THEN AbortWithStatusJSON(ctx, "AuthRequired", 401, "unauthorized",
                                        "Invalid or expired token")
               ELSE Ran(WithClaims(ctx, v.claims), "AuthRequired", TRUE)

AuthRequired ==
    /\ Running("AuthRequired")
    /\ c' = AuthRequiredOn(c, Secret)
    /\ UNCHANGED <<clients, redisStore, served>>
    /\ PipelineFrame

\* the error of validateJWT goes unchecked: every Bearer header is accepted
APIKeyOrJWTAuthOnUnchecked(ctx, jwtSecret) ==
    LET authHeader == Get(ctx.Request.Header, "Authorization")
        parts == SplitN2(authHeader, " ")
    IN IF Get(ctx.Request.Header, "X-API-Key") = Empty /\ authHeader # Empty
          /\ Len(parts) = 2 /\ ToLower(parts[1]) = Str("bearer")
       THEN Ran([WithClaims(ctx, validateJWT(parts[2], jwtSecret).claims)
                     EXCEPT !.Keys = SetKey(@, "auth_type", Str("jwt"))],
                "APIKeyOrJWTAuth", TRUE)
       ELSE AbortWithStatusJSON(ctx, "APIKeyOrJWTAuth", 401, "unauthorized",
                                "API key or valid JWT token required")

\* the key is forwarded as presented, without sha256.Sum256
KeyHashPlain(apiKey) == apiKey

\* keyHash := sha256.Sum256([]byte(apiKey)), hex.EncodeToString(keyHash[:])
KeyHash(apiKey) == EncodeToString(Sum256(apiKey))

\* the handler of middleware.APIKeyOrJWTAuth(jwtSecret) on context ctx
APIKeyOrJWTAuthOn(ctx, jwtSecret) ==
    LET apiKey == Get(ctx.Request.Header, "X-API-Key")
        keyHash == KeyHash(apiKey)
        authHeader == Get(ctx.Request.Header, "Authorization")
        parts == SplitN2(authHeader, " ")
        bearer == authHeader # Empty /\ Len(parts) = 2 /\ ToLower(parts[1]) = Str("bearer")
    IN IF apiKey # Empty
       THEN Ran([ctx EXCEPT !.Keys = SetKey(SetKey(@, "api_key_hash", keyHash),
                                           "auth_type", Str("api_key")),
                            !.Request.Header = Set(@, "X-API-Key-Hash", keyHash)],
                "APIKeyOrJWTAuth", TRUE)
       ELSE IF bearer /\ ~validateJWT(parts[2], jwtSecret).err
       THEN Ran([WithClaims(ctx, validateJWT(parts[2], jwtSecret).claims)
                     EXCEPT !.Keys = SetKey(@, "auth_type", Str("jwt"))],
                "APIKeyOrJWTAuth", TRUE)
       ELSE AbortWithStatusJSON(ctx, "APIKeyOrJWTAuth", 401, "unauthorized",
                                "API key or valid JWT token required")

APIKeyOrJWTAuth ==
    /\ Running("APIKeyOrJWTAuth")
    /\ c' = APIKeyOrJWTAuthOn(c, Secret)
    /\ UNCHANGED <<clients, redisStore, served>>
    /\ PipelineFrame

\* strings.TrimPrefix(path, "/api/v1")
TrimPrefix(path, prefix) ==
    IF Len(path) >= Len(prefix) /\ SubSeq(path, 1, Len(prefix)) = prefix
    THEN SubSeq(path, Len(prefix) + 1, Len(path))
    ELSE path

\* c.GetString
GetString(keys, k) == IF k \in DOMAIN keys THEN keys[k] ELSE Empty

\* the headers ProxyRequest puts on the upstream request
ProxyHeaders(ctx) ==
    LET h0 == SetAll(NoHeaders, ctx.Request.Header)
        clientIP == ClientIP(ctx.Request)
        h1 == IF clientIP # Empty
              THEN Set(Set(h0, "X-Forwarded-For", clientIP), "X-Real-IP", clientIP) ELSE h0
        requestID == GetString(ctx.Keys, "request_id")
        h2 == IF requestID # Empty THEN Set(h1, "X-Request-ID", requestID) ELSE h1
        h3 == IF "user_id" \in DOMAIN ctx.Keys
              THEN Set(h2, "X-User-ID", uintToString(ctx.Keys["user_id"])) ELSE h2
        h4 == IF "user_email" \in DOMAIN ctx.Keys
              THEN Set(h3, "X-User-Email", ctx.Keys["user_email"]) ELSE h3
        h5 == IF "user_role" \in DOMAIN ctx.Keys
              THEN Set(h4, "X-User-Role", ctx.Keys["user_role"]) ELSE h4
    IN IF "api_key_hash" \in DOMAIN ctx.Keys
       THEN Set(h5, "X-API-Key-Hash", ctx.Keys["api_key_hash"]) ELSE h5

\* the "/api/v1" prefix is not put back: targetURL.Path = path
ProxyRequestForBarePath(ctx, target, path) ==
    [target |-> target, Method |-> ctx.Request.Method, Path |-> path,
     RawQuery |-> ctx.Request.RawQuery, Header |-> ProxyHeaders(ctx),
     Body |-> ctx.Request.Body]

\* the request ProxyRequest(c, path) builds for the service target
ProxyRequestFor(ctx, target, path) ==
    [target |-> target, Method |-> ctx.Request.Method, Path |-> V1 \o path,
     RawQuery |-> ctx.Request.RawQuery, Header |-> ProxyHeaders(ctx),
     Body |-> ctx.Request.Body]

\* ProxyToAuth / ProxyToCaptcha with ProxyRequest up to httpClient.Do: reading the
\* inbound body fails (400), or the upstream request is sent
ProxySend(name, target) ==
    /\ Running(name)
    /\ \E bodyRead \in BOOLEAN :
          IF bodyRead
          THEN c' = [c EXCEPT !.upstream = Append(@,
                          ProxyRequestFor(c, target, TrimPrefix(c.Request.Path, V1))),
                              !.proxy = "sent"]
          ELSE c' = Ran([c EXCEPT !.Writer = WriteJSON(@, 400,
                             ErrorBody("bad_request", "Failed to read request body"))],
                        name, TRUE)
    /\ UNCHANGED <<clients, redisStore, served>>
    /\ PipelineFrame

\* the handler of the auth and api-keys routes
ProxyToAuth ==
    /\ Running("ProxyToAuth")
    /\ ProxySend("ProxyToAuth", "auth")

\* the handler of the captcha routes
ProxyToCaptcha ==
    /\ Running("ProxyToCaptcha")
    /\ ProxySend("ProxyToCaptcha", "captcha")

\* what the backend may answer to upstream request up: the identity service
\* answers 401 from its AuthRequired middleware when that rejects the request
UpstreamResponses(up) ==
    LET ct == Set(NoHeaders, "Content-Type", Str("application/json"))
        auth == ServiceAuthRequired(up.Header, Secret, now)
    IN IF up.target = "auth" /\ ServiceProtected(up.Method, up.Path) /\ auth.status = 401
       THEN {[status |-> 401, Header |-> Set(ct, "X-Request-ID", Get(up.Header, "X-Request-ID")),
              Body |-> ErrorBody("unauthorized", auth.message)]}
       ELSE
       {[status |-> 200, Header |-> Set(ct, "X-Request-ID", Get(up.Header, "X-Request-ID")),
         Body |-> <<"upstream body">>],
        [status |-> 401, Header |-> Set(ct, "X-Request-ID", Str("backend-own-id")),
         Body |-> <<"upstream error">>],
        [status |-> 200, Header |-> Set(Set(ct, "X-Frame-Options", Str("SAMEORIGIN")),
                                        "Strict-Transport-Security", Str("max-age=60")),
         Body |-> <<"upstream body">>],
        [status |-> 503, Header |-> Set(Set(ct, "Keep-Alive", Str("timeout=5")),
                                        "Proxy-Authenticate", Str("Basic")),
         Body |-> <<"upstream busy">>]}

\* do-error: httpClient.Do returns an error (dial failure, or the client's 30 s
\* Timeout before the response headers); read-error: io.ReadAll(resp.Body)
\* returns an error (connection lost, or the Timeout while the body is read)
ProxyOutcomes(up) ==
    {[kind |-> "do-error", status |-> 0, Header |-> NoHeaders, Body |-> NoBody],
     [kind |-> "read-error", status |-> 200, Header |-> NoHeaders, Body |-> NoBody]}
    \cup {[kind |-> "response", status |-> r.status, Header |-> r.Header, Body |-> r.Body] :
             r \in UpstreamResponses(up)}

\* ProxyRequest from httpClient.Do on: the call fails (502), reading the upstream
\* body fails (500), or the upstream response is relayed
ProxyRelay(ctx, out) ==
    CASE out.kind = "do-error" ->
            [ctx EXCEPT !.Writer = WriteJSON(@, 502,
                 ErrorBody("service_unavailable", "Backend service is unavailable"))]
      [] out.kind = "read-error" ->
            [ctx EXCEPT !.Writer = WriteJSON(@, 500,
                 ErrorBody("proxy_error", "Failed to read response"))]
      [] OTHER ->
            [ctx EXCEPT !.Writer = WriteData([@ EXCEPT !.Header = HeaderAll(@, out.Header)],
                 out.status, Get(out.Header, "Content-Type"), out.Body)]

ProxyReply ==
    /\ c.stage = "run" /\ c.proxy = "sent"
    /\ \E out \in ProxyOutcomes(c.upstream[Len(c.upstream)]) :
          c' = Ran([ProxyRelay(c, out) EXCEPT !.proxy = "none", !.reply = Append(@, out)],
                   Head(c.handlers), TRUE)
    /\ UNCHANGED <<clients, redisStore, served>>
    /\ PipelineFrame

-----------------------------------------------------------------------------
(* The requests of the pipeline specification *)

Bearer(token) == <<"Bearer", " ">> \o token

Token(h, p, sig) == <<h, ".", p, ".">> \o sig

GoodToken == Token("hdrHS256", "payloadAlice", Str("sigSecret"))

AuthorizationValues ==
    {Empty,
     <<"Basic", " ", "dXNlcjpwdw">>,
     <<"Bearer">>,
     Bearer(<<"hdrHS256", ".", "payloadAlice">>),
     Bearer(GoodToken),
     Bearer(Token("hdrHS256", "payloadAlice", Str("sigOther"))),
     Bearer(Token("hdrHS256", "payloadAliceExpired", Str("sigSecret"))),
     Bearer(Token("hdrNone", "payloadAlice", Empty)),
     Bearer(Token("hdrRS256", "payloadAlice", Str("sigOther")))}

Targets ==
    {<<"GET", <<"health">>>>,
     <<"POST", V1 \o <<"auth", "login">>>>,
     <<"GET", V1 \o <<"auth", "me">>>>,
     <<"POST", V1 \o <<"captcha", "solve">>>>,
     <<"GET", V1 \o <<"captcha", "stats">>>>,
     <<"GET", V1 \o <<"nothing">>>>,
     <<"OPTIONS", V1 \o <<"auth", "login">>>>}

\* headers a client may add to pass for an authenticated principal
SpoofedHeaders ==
    {NoHeaders,
     Set(Set(Set(NoHeaders, "X-User-ID", Str("1")), "X-User-Email", Str("admin@example.com")),
         "X-User-Role", Str("admin")),
     Set(NoHeaders, "X-API-Key-Hash", Str("c0ffee"))}

ClientRequest(target, rid, auth, key, spoof, origin) ==
    [Method |-> target[1], Path |-> target[2], RawQuery |-> Empty,
     RemoteAddr |-> Str("10.0.0.1"), Body |-> NoBody,
     Header |-> SetOrDelete(SetOrDelete(SetOrDelete(SetOrDelete(spoof,
                    "X-Request-ID", rid), "Authorization", auth), "X-API-Key", key),
                    "Origin", origin)]

\* the targets whose handler chain reads no credential
OpenTargets == {t \in Targets : t[1] = "OPTIONS" \/ t[2] \in {<<"health">>, V1 \o <<"nothing">>}}

CoreRequests ==
    {ClientRequest(t, Empty, auth, key, spoof, Empty) :
        t \in Targets \ OpenTargets, auth \in AuthorizationValues,
        key \in {Empty, Str("cp_live_k1")}, spoof \in SpoofedHeaders}
    \cup
    {ClientRequest(t, Str("client-rid"), auth, Empty, NoHeaders, Empty) :
        t \in Targets \ OpenTargets, auth \in AuthorizationValues}
    \cup
    {ClientRequest(t, rid, auth, Empty, spoof, Empty) :
        t \in OpenTargets, rid \in {Empty, Str("client-rid")},
        auth \in {Empty, Bearer(GoodToken)}, spoof \in SpoofedHeaders}
    \cup
    {ClientRequest(t, Empty, Empty, Empty, NoHeaders, origin) :
        t \in {x \in Targets : x[1] = "OPTIONS"},
        origin \in {Str("http://localhost:3000"), Str("http://evil.example")}}

\* the largest inbound body, in chunks
MaxBody == 2

\* requests with hop-by-hop headers, a query string, a body, a trailing slash,
\* a forwarded client address
EdgeRequests ==
    {[ClientRequest(<<"POST", V1 \o <<"auth", "login">>>>, Empty, Empty, Empty, NoHeaders, Empty)
         EXCEPT !.Header = Set(Set(Set(@, "Connection", Str("keep-alive, Upgrade")),
                                   "Upgrade", Str("websocket")),
                               "Proxy-Authorization", Str("Basic cHJveHk")),
                !.Body = [i \in 1..n |-> "chunk"]] : n \in {1, MaxBody}}
    \cup
    {[ClientRequest(<<"GET", V1 \o <<"captcha", "stats">>>>, Empty, Bearer(GoodToken), Empty,
                    NoHeaders, Empty)
         EXCEPT !.RawQuery = Str("from=1&to=2")]}
    \cup
    {ClientRequest(t, Empty, Empty, Empty, NoHeaders, Empty) :
        t \in {<<"POST", V1 \o <<"auth", "login", "">>>>, <<"GET", V1 \o <<"auth", "me", "">>>>}}
    \cup
    {ClientRequest(<<"POST", V1 \o <<"auth", "login">>>>, Empty, Empty, Empty,
                   Set(NoHeaders, h, Str("10.0.0.2")), Empty) :
        h \in {"X-Forwarded-For", "X-Real-IP"}}

Requests == CoreRequests \cup EdgeRequests

Init ==
    /\ cfg \in {Config(e, r, 1, Minute) : e \in {"development", "production"}, r \in BOOLEAN}
    /\ now = 0
    /\ clients = NoClients
    /\ redisStore = NoKeys
    /\ inflight = [p \in Procs |-> IdleProc]
    /\ admits = NoAdmits
    /\ served = 0
    /\ last = NoAnswer
    /\ c = NoContext
    /\ srv = Serving(cfg.redis)
    /\ ident = NoIdentity

Next ==
    \/ \E r \in Requests : Arrive(r)
    \/ Recovery
    \/ Logger
    \/ RequestID
    \/ CORS
    \/ SecurityHeaders
    \/ NoRoute
    \/ RedirectTrailingSlash
    \/ Health
    \/ RateLimiterMemory
    \/ RateLimiterRedis
    \/ AuthRequired
    \/ APIKeyOrJWTAuth
    \/ ProxyToAuth
    \/ ProxyToCaptcha
    \/ ProxyReply
    \/ LoggerPost
    \/ Release

Spec == Init /\ [][Next]_vars

-----------------------------------------------------------------------------
(* The claims about the pipeline *)

HasPrefix(path, prefix) == Len(path) >= Len(prefix) /\ SubSeq(path, 1, Len(prefix)) = prefix

\* the authentication policy the interface table gives a request
Policy(request) ==
    CASE request.Method = "OPTIONS" -> "preflight"
      [] request.Path = <<"health">> -> "none"
      [] HasPrefix(request.Path, V1 \o <<"auth", "me">>) -> "bearer_required"
      [] HasPrefix(request.Path, V1 \o <<"auth">>) -> "none"
      [] HasPrefix(request.Path, V1 \o <<"api-keys">>) -> "bearer_required"
      [] HasPrefix(request.Path, V1 \o <<"captcha", "solve">>) -> "bearer_or_api_key"
      [] HasPrefix(request.Path, V1 \o <<"captcha">>) -> "bearer_required"
      [] OTHER -> "unrouted"

Routed(request) == Matching(cfg.redis, request.Method, request.Path) # {}

\* a full verification of an Authorization header at time t: Bearer, one space,
\* a three-segment HS256 token with a verifying signature and exp > t
VerifiedBearer(authHeader, t) ==
    LET parts == SplitN2(authHeader, " ")
    IN IF authHeader # Empty /\ Len(parts) = 2 /\ ToLower(parts[1]) = Str("bearer")
       THEN ValidateAccessToken(parts[2], Secret, t)
       ELSE [err |-> TRUE, claims |-> NoClaims]

Done == c.stage = "done"

Forwarded == c.upstream # <<>>

HandlerRan(name) == \E i \in 1..Len(c.trace) : c.trace[i][1] = name

HandlerPassed(name) == \E i \in 1..Len(c.trace) : c.trace[i] = <<name, "next">>

(* C2: on a bearer_required route, a request that reaches the authenticator
   with an absent or invalid Authorization header (malformed, not three
   segments, bad signature, expired, alg none or asymmetric) is answered 401
   and no upstream request is issued for it. *)
C2_InvalidBearerRejected ==
    (/\ Routed(c.Request) /\ Policy(c.Request) = "bearer_required"
     /\ HandlerRan("AuthRequired")
     /\ VerifiedBearer(Get(c.Request.Header, "Authorization"), now).err)
    => (c.Writer.status = 401 /\ ~Forwarded)

\* the correlation id of the request in the pipeline: the inbound X-Request-ID
\* when it is not empty, else the id generated for it
CorrelationID ==
    IF Get(c.Request.Header, "X-Request-ID") # Empty
    THEN Get(c.Request.Header, "X-Request-ID")
    ELSE NewUUID(served)

(* C3: the X-Request-ID of the response sent to the client is the inbound
   X-Request-ID when that is not empty and else a freshly generated non-empty
   id, and every upstream request of the request carries the same value,
   whatever headers the upstream puts on its response. *)
C3_RequestIDPreserved ==
    Done =>
        /\ CorrelationID # Empty
        /\ Get(c.Writer.Header, "X-Request-ID") = CorrelationID
        /\ \A i \in 1..Len(c.upstream) : Get(c.upstream[i].Header, "X-Request-ID") = CorrelationID

\* the request's principal is bearer: the route takes a bearer token, no API key
\* stands in for it, and the token verifies
BearerPrincipal ==
    /\ Routed(c.Request)
    /\ \/ Policy(c.Request) = "bearer_required"
       \/ Policy(c.Request) = "bearer_or_api_key" /\ Get(c.Request.Header, "X-API-Key") = Empty
    /\ ~VerifiedBearer(Get(c.Request.Header, "Authorization"), now).err

(* C4: for a forwarded request whose principal is bearer, the upstream request
   carries X-User-ID, X-User-Email, X-User-Role equal to the user_id, email and
   role claims of the verified token. *)
C4_UpstreamCarriesVerifiedClaims ==
    (Forwarded /\ BearerPrincipal) =>
        LET claims == VerifiedBearer(Get(c.Request.Header, "Authorization"), now).claims
        IN \A i \in 1..Len(c.upstream) :
              /\ Get(c.upstream[i].Header, "X-User-ID") = uintToString(claims.UserID)
              /\ Get(c.upstream[i].Header, "X-User-Email") = claims.Email
              /\ Get(c.upstream[i].Header, "X-User-Role") = claims.Role

\* the value the router derives for principal header h from the request's own
\* principal (the context keys the authenticator set); none: no such header
DerivedPrincipalHeader(h) ==
    CASE h = "X-User-ID" ->
            IF "user_id" \in DOMAIN c.Keys THEN <<uintToString(c.Keys["user_id"])>> ELSE <<>>
      [] h = "X-User-Email" ->
            IF "user_email" \in DOMAIN c.Keys THEN <<c.Keys["user_email"]>> ELSE <<>>
      [] h = "X-User-Role" ->
            IF "user_role" \in DOMAIN c.Keys THEN <<c.Keys["user_role"]>> ELSE <<>>
      [] OTHER ->
            IF "api_key_hash" \in DOMAIN c.Keys THEN <<c.Keys["api_key_hash"]>> ELSE <<>>

PrincipalHeaders == {"X-User-ID", "X-User-Email", "X-User-Role", "X-API-Key-Hash"}

(* C5: the principal headers X-User-ID, X-User-Email, X-User-Role and
   X-API-Key-Hash of an upstream request are the values the router derived from
   the request's own principal, never the client's: a header the router derived
   no value for is absent upstream, so two requests that differ only in the
   client's values of these headers give the same upstream request. *)
C5_PrincipalHeadersDerived ==
    \A i \in 1..Len(c.upstream) : \A h \in PrincipalHeaders :
        LET sent == IF h \in DOMAIN c.upstream[i].Header THEN <<c.upstream[i].Header[h]>> ELSE <<>>
        IN sent = DerivedPrincipalHeader(h)

LowerHex == {"0", "1", "2", "3", "4", "5", "6", "7", "8", "9", "a", "b", "c", "d", "e", "f"}

\* upstream request i carries the lowercase hex SHA-256 of the presented key
CarriesFingerprint(i) ==
    LET sent == Get(c.upstream[i].Header, "X-API-Key-Hash")
    IN /\ sent = EncodeToString(Sum256(Get(c.Request.Header, "X-API-Key")))
       /\ sent # Empty
       /\ \A k \in 1..Len(sent) : sent[k] \in LowerHex

(* C6, as claimed: every forwarded request with a non-empty X-API-Key, on any
   proxied route, carries X-API-Key-Hash = lowercase hex SHA-256 of the key. *)
C6_AnyRouteCarriesFingerprint ==
    (Forwarded /\ Get(c.Request.Header, "X-API-Key") # Empty) =>
        \A i \in 1..Len(c.upstream) : CarriesFingerprint(i)

(* C6, amended: every forwarded request with a non-empty X-API-Key on a
   bearer_or_api_key route (POST /api/v1/captcha/solve, /solve/batch) carries
   X-API-Key-Hash = lowercase hex SHA-256 of the key, whatever X-API-Key-Hash
   the client sent. *)
C6_SolveRouteCarriesFingerprint ==
    (/\ Forwarded
     /\ Policy(c.Request) = "bearer_or_api_key"
     /\ Get(c.Request.Header, "X-API-Key") # Empty) =>
        \A i \in 1..Len(c.upstream) : CarriesFingerprint(i)

C6_Witness ==
    /\ Done /\ Forwarded
    /\ Policy(c.Request) = "bearer_or_api_key"
    /\ Get(c.Request.Header, "X-API-Key") = Str("cp_live_k1")
    /\ Get(c.upstream[1].Header, "X-API-Key-Hash") = <<"a", "b", "0", "9">>

(* C7: every response the router produces carries X-Content-Type-Options,
   X-Frame-Options, X-XSS-Protection and Referrer-Policy with the router's
   values, and Strict-Transport-Security if and only if the environment is
   production. *)
C7_SecurityHeadersOnEveryResponse ==
    Done =>
        /\ Get(c.Writer.Header, "X-Content-Type-Options") = Str("nosniff")
        /\ Get(c.Writer.Header, "X-Frame-Options") = Str("DENY")
        /\ Get(c.Writer.Header, "X-XSS-Protection") = Str("1; mode=block")
        /\ Get(c.Writer.Header, "Referrer-Policy") = Str("strict-origin-when-cross-origin")
        /\ ("Strict-Transport-Security" \in DOMAIN c.Writer.Header) <=> (cfg.Environment = "production")

\* the router's own rejections; 400 (bad_request, an unreadable inbound body) is
\* counted with them
RejectedStatus == {429, 401, 404, 413, 502, 500, 400}

\* the response is one of the router's rejections, or an answer: a relayed
\* upstream response, the health report or the preflight answer
TerminalState ==
    \/ c.Writer.status \in RejectedStatus
    \/ Forwarded
    \/ c.Writer.status \in {200, 204}

(* C8: every request ends in exactly one terminal state, and there exactly one
   response has been written, which carries the request's correlation id in
   X-Request-ID. *)
C8_OneResponseWithCorrelationID ==
    Done =>
        /\ TerminalState
        /\ c.Writer.written = 1
        /\ Get(c.Writer.Header, "X-Request-ID") = CorrelationID

\* position of handler name in the trace, 0 when it did not run
TracePos(name) ==
    IF HandlerRan(name) THEN CHOOSE i \in 1..Len(c.trace) : c.trace[i][1] = name ELSE 0

LimiterPos == IF TracePos("RateLimiterRedis") # 0 THEN TracePos("RateLimiterRedis") ELSE TracePos("RateLimiterMemory")

AuthPos == IF TracePos("AuthRequired") # 0 THEN TracePos("AuthRequired") ELSE TracePos("APIKeyOrJWTAuth")

LimitedOut == c.Writer.body = ErrorBody("rate_limit_exceeded", "Too many requests, please try again later")

(* C9: on an /api/v1 route the stages run in the order RateLimit, Authenticate,
   Forward: a request the limiter answered 429 never reaches the authenticator,
   and an upstream request is issued only after the limiter has let the request
   pass and, on a route that forbids anonymous access, after the authenticator
   has accepted it. *)
C9_StageOrder ==
    /\ LimitedOut => (AuthPos = 0 /\ ~Forwarded)
    /\ Forwarded =>
          /\ LimiterPos # 0 /\ c.trace[LimiterPos][2] = "next"
          /\ Policy(c.Request) \in {"bearer_required", "bearer_or_api_key"} =>
                (AuthPos > LimiterPos /\ c.trace[AuthPos][2] = "next")

C9_Witness ==
    /\ Done /\ Forwarded
    /\ Policy(c.Request) = "bearer_required"
    /\ served = 2
    /\ AuthPos > LimiterPos

(* C10: with the Redis backend, a request whose counter-store round trip failed
   is passed on to the next stage and is never answered 429 by the limiter. *)
C10_FailOpen ==
    c.storeErr => (HandlerPassed("RateLimiterRedis") /\ ~LimitedOut)

C10_Witness ==
    /\ Done /\ c.storeErr /\ Forwarded
    /\ RateKey(ClientIP(c.Request)) \in DOMAIN redisStore
    /\ redisStore[RateKey(ClientIP(c.Request))].val > cfg.Requests

-----------------------------------------------------------------------------
(* C11: the two authenticators compared on the same request *)

\* handler name is the last one that ran
JustRan(name) == c.trace # <<>> /\ c.trace[Len(c.trace)][1] = name

\* what AuthRequired makes of the request the last handler has just dealt with:
\* the context as it was before that handler wrote its answer
AsAuthRequired ==
    AuthRequiredOn([c EXCEPT !.Writer = [@ EXCEPT !.status = 0, !.written = 0, !.body = NoBody],
                             !.trace = SubSeq(@, 1, Len(@) - 1)],
                   Secret)

\* "next" when the last handler passed the request on, "abort" when it rejected it
Decision(ctx) == ctx.trace[Len(ctx.trace)][2]

\* the error kind of a response body, empty when no error body was written
ErrorKind(body) == IF body = NoBody THEN "" ELSE body[2]

\* the principal a handler attached: the user keys of the context and the X-User-*
\* headers of the request
Principal(ctx) ==
    [keys |-> [k \in DOMAIN ctx.Keys \cap {"user_id", "user_email", "user_role"} |-> ctx.Keys[k]],
     headers |-> [h \in DOMAIN ctx.Request.Header \cap {"X-User-ID", "X-User-Email", "X-User-Role"} |->
                     ctx.Request.Header[h]]]

NoAPIKeyJustAuthenticated ==
    JustRan("APIKeyOrJWTAuth") /\ Get(c.Request.Header, "X-API-Key") = Empty

(* C11, as claimed: on a bearer_or_api_key route a request without X-API-Key
   gets from APIKeyOrJWTAuth the decision, the status, the error body (kind and
   message) and the principal that AuthRequired gives for the same
   Authorization header. *)
C11_SameAnswerAsAuthRequired ==
    NoAPIKeyJustAuthenticated =>
        /\ Decision(c) = Decision(AsAuthRequired)
        /\ c.Writer.status = AsAuthRequired.Writer.status
        /\ c.Writer.body = AsAuthRequired.Writer.body
        /\ Principal(c) = Principal(AsAuthRequired)

(* C11, amended: on a bearer_or_api_key route a request without X-API-Key gets
   from APIKeyOrJWTAuth the decision, the status, the error kind and the
   principal that AuthRequired gives for the same Authorization header; the
   message of every rejection is "API key or valid JWT token required". *)
C11_SameDecisionAsAuthRequired ==
    NoAPIKeyJustAuthenticated =>
        /\ Decision(c) = Decision(AsAuthRequired)
        /\ c.Writer.status = AsAuthRequired.Writer.status
        /\ ErrorKind(c.Writer.body) = ErrorKind(AsAuthRequired.Writer.body)
        /\ Principal(c) = Principal(AsAuthRequired)
        /\ Decision(c) = "abort" =>
               c.Writer.body = ErrorBody("unauthorized", "API key or valid JWT token required")

C11_Witness ==
    /\ NoAPIKeyJustAuthenticated
    /\ Get(c.Request.Header, "Authorization") = Bearer(<<"hdrHS256", ".", "payloadAlice">>)
    /\ Decision(c) = "abort" /\ c.Writer.status = 401
    /\ AsAuthRequired.Writer.body = ErrorBody("unauthorized", "Invalid or expired token")

-----------------------------------------------------------------------------
(* C12: preflight answers *)

\* the answered request is a preflight: OPTIONS with an Origin header
Preflight ==
    Done /\ c.Request.Method = "OPTIONS" /\ Get(c.Request.Header, "Origin") # Empty

AllowHeaders ==
    {"Access-Control-Allow-Origin", "Access-Control-Allow-Methods",
     "Access-Control-Allow-Headers", "Access-Control-Allow-Credentials"}

(* C12: a preflight request is answered 204; when its Origin is in the
   allow-list or "*" is configured the answer carries Access-Control-Allow-Origin
   equal to the origin together with Allow-Methods, Allow-Headers,
   Allow-Credentials and Max-Age; when the Origin is not allowed the answer
   carries none of the Access-Control-Allow-* headers. *)
C12_PreflightAnswer ==
    Preflight =>
        /\ c.Writer.status = 204
        /\ IF OriginAllowed(cfg.AllowedOrigins, Get(c.Request.Header, "Origin"))
           THEN /\ Get(c.Writer.Header, "Access-Control-Allow-Origin") = Get(c.Request.Header, "Origin")
                /\ (AllowHeaders \cup {"Access-Control-Max-Age"}) \subseteq DOMAIN c.Writer.Header
           ELSE AllowHeaders \cap DOMAIN c.Writer.Header = {}

-----------------------------------------------------------------------------
(* C13 to C16: the forwarder *)

HopByHop ==
    {"Connection", "Keep-Alive", "Proxy-Authorization", "Proxy-Authenticate",
     "TE", "Trailer", "Transfer-Encoding", "Upgrade"}

\* the upstream answered and ProxyRequest relayed the answer
Relayed == c.reply # <<>> /\ c.reply[Len(c.reply)].kind = "response"

(* C13: no hop-by-hop header of the inbound request is on an upstream request,
   none of the upstream response is on the relayed response, and every other
   inbound header is on the upstream request. *)
C13_NoHopByHopHeaders ==
    /\ \A i \in 1..Len(c.upstream) :
          /\ HopByHop \cap DOMAIN c.upstream[i].Header = {}
          /\ (DOMAIN c.Request.Header \ HopByHop) \subseteq DOMAIN c.upstream[i].Header
    /\ Relayed => HopByHop \cap DOMAIN c.Writer.Header = {}

(* C14: for every forwarded request the upstream path is the inbound path,
   which begins with /api/v1, and the upstream raw query is the inbound raw
   query. *)
C14_PathAndQueryPreserved ==
    \A i \in 1..Len(c.upstream) :
        /\ HasPrefix(c.Request.Path, V1)
        /\ c.upstream[i].Path = c.Request.Path
        /\ c.upstream[i].RawQuery = c.Request.RawQuery

C14_Witness ==
    /\ Done /\ Forwarded
    /\ c.Request.RawQuery = Str("from=1&to=2")
    /\ c.upstream[1].Path = V1 \o <<"captcha", "stats">>
    /\ c.upstream[1].RawQuery = Str("from=1&to=2")

\* the ceiling on an inbound body the claim speaks of, in chunks: the body of
\* MaxBody chunks is over it
BodyCeiling == MaxBody - 1

(* C15: a request whose body exceeds the ceiling is answered 413 and no
   upstream request is issued for it. *)
C15_OversizeBodyRejected ==
    Len(c.Request.Body) > BodyCeiling =>
        /\ ~Forwarded
        /\ (Done /\ (HandlerRan("ProxyToAuth") \/ HandlerRan("ProxyToCaptcha"))) =>
               c.Writer.status = 413

(* C16: when the upstream call failed (dial, read of the response, timeout) the
   client gets 502 with kind service_unavailable; when the upstream answered,
   its status and body are relayed unchanged. *)
C16_UpstreamFailureIs502 ==
    c.reply # <<>> =>
        LET out == c.reply[Len(c.reply)]
        IN IF out.kind = "response"
           THEN c.Writer.status = out.status /\ c.Writer.body = out.Body
           ELSE c.Writer.status = 502 /\ ErrorKind(c.Writer.body) = "service_unavailable"

-----------------------------------------------------------------------------
(* The process: config.Load and startup, panics, signal and shutdown *)

\* len(cfg.JWT.Secret) < 32
MinSecretLen == 32

\* the default of JWT_SECRET, character by character
DefaultJWTSecret ==
    <<"y", "o", "u", "r", "-", "s", "e", "c", "r", "e", "t", "-", "k", "e",
      "y", "-", "m", "i", "n", "-", "3", "2", "-", "c", "h", "a", "r", "a",
      "c", "t", "e", "r", "s", "-", "l", "o", "n", "g">>

\* os.Getenv(key): empty when the variable is not set
Getenv(env, key) == IF key \in DOMAIN env THEN env[key] ELSE Empty

\* getEnv(key, defaultValue)
getEnv(env, key, defaultValue) ==
    IF Getenv(env, key) # Empty THEN Getenv(env, key) ELSE defaultValue

NoEnv == [k \in {} |-> Empty]

\* JWT_SECRET in the environment: unset, empty, too short by far, one short, just enough
Environments ==
    {NoEnv}
    \cup {[k \in {"JWT_SECRET"} |-> [i \in 1..n |-> "s"]] :
             n \in {0, 5, MinSecretLen - 1, MinSecretLen}}

\* nil *config.Config
NoConfig == Config("", FALSE, 0, 0)

\* log.Fatal: os.Exit(1)
Fatal(sv) == [sv EXCEPT !.pc = "exited", !.fatal = TRUE, !.exit = 1]

ServerFrame == UNCHANGED <<now, clients, redisStore, inflight, admits, served, last, ident>>

\* config.Load, the check in main, NewRedisClient
Load ==
    /\ srv.pc = "load"
    /\ LET secret == getEnv(srv.env, "JWT_SECRET", DefaultJWTSecret)
       IN IF secret = Empty \/ Len(secret) < MinSecretLen
          THEN srv' = Fatal(srv) /\ UNCHANGED cfg
          ELSE \E r \in BOOLEAN :
                  /\ cfg' = Config("development", r, 1, Minute)
                  /\ srv' = [srv EXCEPT !.pc = "listen", !.secret = secret,
                                        !.redis = IF r THEN "open" ELSE "none"]
    /\ UNCHANGED c
    /\ ServerFrame

\* go srv.ListenAndServe(): the port is bound, or log.Fatal
Listen ==
    /\ srv.pc = "listen"
    /\ \E bound \in BOOLEAN :
          srv' = IF bound THEN [srv EXCEPT !.pc = "serving", !.listener = "open"] ELSE Fatal(srv)
    /\ UNCHANGED <<cfg, c>>
    /\ ServerFrame

\* <-quit: SIGINT or SIGTERM arrives
Signal ==
    /\ srv.pc = "serving"
    /\ srv' = [srv EXCEPT !.pc = "closeRedis"]
    /\ UNCHANGED <<cfg, c>>
    /\ ServerFrame

\* if redisClient != nil { redisClient.Close() }
CloseRedis ==
    /\ srv.pc = "closeRedis"
    /\ srv' = [srv EXCEPT !.pc = "shutdown", !.redis = IF @ = "open" THEN "closed" ELSE @]
    /\ UNCHANGED <<cfg, c>>
    /\ ServerFrame

\* srv.Shutdown(ctx) closes the listener and starts to wait for the requests in flight
Shutdown ==
    /\ srv.pc = "shutdown"
    /\ srv' = [srv EXCEPT !.pc = "drain", !.listener = "closed"]
    /\ UNCHANGED <<cfg, c>>
    /\ ServerFrame

\* srv.Shutdown returns nil: no request is in flight; main returns
Drained ==
    /\ srv.pc = "drain"
    /\ c.stage # "run"
    /\ srv' = [srv EXCEPT !.pc = "exited", !.exit = 0]
    /\ UNCHANGED <<cfg, c>>
    /\ ServerFrame

\* srv.Shutdown returns the context's error after 30 s: log.Fatal with a request in flight
DrainTimeout ==
    /\ srv.pc = "drain"
    /\ c.stage = "run"
    /\ srv' = Fatal(srv)
    /\ c' = [c EXCEPT !.stage = "killed"]
    /\ UNCHANGED cfg
    /\ ServerFrame

\* no gin.Recovery in the chain: the panic ends the process
AfterPanicUnrecovered(ctx, sv) ==
    [c |-> [ctx EXCEPT !.stage = "killed",
                       !.trace = Append(@, <<Head(ctx.handlers), "panic">>)],
     srv |-> [sv EXCEPT !.pc = "exited", !.exit = 2]]

\* the deferred function of gin.Recovery(): c.AbortWithStatus(500); the frames of
\* the handlers between Recovery and the panic are unwound, Logger's among them
AfterPanic(ctx, sv) ==
    [c |-> [ctx EXCEPT !.Writer = Write(@, 500, NoBody),
                       !.handlers = <<>>,
                       !.trace = Append(@, <<Head(ctx.handlers), "panic">>),
                       !.stage = "done"],
     srv |-> [sv EXCEPT !.panics = @ + 1]]

\* the handler at the head of the chain panics
Panic ==
    /\ c.stage = "run" /\ c.handlers # <<>> /\ c.proxy = "none"
    /\ \E i \in 1..Len(c.trace) : c.trace[i] = <<"Recovery", "next">>
    /\ c' = AfterPanic(c, srv).c
    /\ srv' = AfterPanic(c, srv).srv
    /\ UNCHANGED <<cfg, now, clients, redisStore, inflight, admits, served, last, ident>>

ServerRequests ==
    {ClientRequest(<<"GET", <<"health">>>>, Empty, Empty, Empty, NoHeaders, Empty),
     ClientRequest(<<"GET", V1 \o <<"nothing">>>>, Empty, Empty, Empty, NoHeaders, Empty),
     ClientRequest(<<"POST", V1 \o <<"auth", "login">>>>, Empty, Empty, Empty, NoHeaders, Empty),
     ClientRequest(<<"GET", V1 \o <<"auth", "me">>>>, Empty, Bearer(GoodToken), Empty, NoHeaders, Empty),
     ClientRequest(<<"POST", V1 \o <<"captcha", "solve">>>>, Empty, Empty, Str("cp_live_k1"),
                   NoHeaders, Empty)}

InitServer ==
    /\ cfg = NoConfig
    /\ now = 0
    /\ clients = NoClients
    /\ redisStore = NoKeys
    /\ inflight = [p \in Procs |-> IdleProc]
    /\ admits = NoAdmits
    /\ served = 0
    /\ last = NoAnswer
    /\ c = NoContext
    /\ srv \in {[pc |-> "load", env |-> e, secret |-> Empty, listener |-> "none",
                  redis |-> "none", exit |-> -1, fatal |-> FALSE, panics |-> 0] :
                    e \in Environments}
    /\ ident = NoIdentity

NextServer ==
    \/ Load
    \/ Listen
    \/ \E r \in ServerRequests : Arrive(r)
    \/ Recovery
    \/ Logger
    \/ RequestID
    \/ CORS
    \/ SecurityHeaders
    \/ NoRoute
    \/ Health
    \/ RateLimiterMemory
    \/ RateLimiterRedis
    \/ AuthRequired
    \/ APIKeyOrJWTAuth
    \/ ProxyToAuth
    \/ ProxyToCaptcha
    \/ ProxyReply
    \/ LoggerPost
    \/ Release
    \/ Panic
    \/ Signal
    \/ CloseRedis
    \/ Shutdown
    \/ Drained
    \/ DrainTimeout

SpecServer == InitServer /\ [][NextServer]_vars

-----------------------------------------------------------------------------
(* C17 to C20: the claims about the process *)

(* C17: after SIGINT or SIGTERM the router stops accepting, drains the requests
   in flight, closes the counter-store connection and exits with code 0, in
   this order: the connection is closed only once the listener is closed and
   no request is in flight, and the exit after a shutdown has code 0. *)
C17_ShutdownOrder ==
    /\ srv.redis = "closed" => (srv.listener = "closed" /\ c.stage # "run")
    /\ (srv.pc = "exited" /\ srv.listener = "closed") => srv.exit = 0

(* C18: the listener is started only when JWT_SECRET of the environment is at
   least 32 bytes long: when it is unset, empty or shorter, startup ends with a
   fatal log and a non-zero exit and the listener is never started. *)
C18_ShortSecretNeverListens ==
    Len(Getenv(srv.env, "JWT_SECRET")) < MinSecretLen =>
        /\ srv.listener = "none"
        /\ srv.pc # "load" => (srv.pc = "exited" /\ srv.fatal /\ srv.exit > 0)

\* the request in the pipeline ended in a panic
Panicked(ctx) == ctx.trace # <<>> /\ ctx.trace[Len(ctx.trace)][2] = "panic"

(* C19: a panic in a handler becomes a 500 response for that request only: the
   process does not exit, and the panic leaves the listener, the limiter state
   and the counter store as they were, so later requests are served as before. *)
C19_PanicIsOne500 ==
    /\ [](Panicked(c) =>
             c.stage = "done" /\ c.Writer.status = 500 /\ c.Writer.written = 1)
    /\ [][(~Panicked(c) /\ Panicked(c')) =>
             /\ srv'.pc = srv.pc /\ srv'.exit = -1
             /\ srv'.listener = srv.listener /\ srv'.redis = srv.redis
             /\ clients' = clients /\ redisStore' = redisStore /\ served' = served]_vars

\* a request answered 200 by the upstream after an earlier request had panicked
C19_Witness ==
    /\ srv.panics = 1 /\ served = 2
    /\ Done /\ ~Panicked(c) /\ Relayed /\ c.Writer.status = 200
    /\ srv.pc = "serving"

(* C20: for every request, forwarded, short-circuited or ended by a panic, the
   router writes exactly one access-log entry, which records the final status
   of the request. *)
C20_OneAccessLogEntry ==
    Done => (Len(c.log) = 1 /\ c.log[1] = c.Writer.status)

-----------------------------------------------------------------------------
(* Requests that match no route *)

\* the request in progress matches no route entry
Unmatched == c.stage # "idle" /\ ~Routed(c.Request)

\* the request in progress is one the engine redirects to the toggled trailing slash
SlashRedirected ==
    Matching(cfg.redis, c.Request.Method, TrailingSlashToggled(c.Request.Path)) # {}

\* none of the limiter, the authentication handlers and the proxy ran
OutsideTheGroups ==
    /\ ~Forwarded
    /\ c.Writer.status \notin {429, 401}
    /\ \A name \in {"RateLimiterMemory", "RateLimiterRedis", "AuthRequired", "APIKeyOrJWTAuth",
                     "ProxyToAuth", "ProxyToCaptcha"} : ~HandlerRan(name)

(* C21 as the specification words it: a request whose (method, path) matches no
   route entry is answered 404, no step of it changes a rate-limit counter, it is
   never answered 429 or 401, and no upstream request is made for it. *)
C21_UnmatchedIs404 ==
    /\ [](Unmatched => OutsideTheGroups /\ (Done => c.Writer.status = 404))
    /\ [][Unmatched => clients' = clients /\ redisStore' = redisStore]_vars

(* C21: a request whose (method, path) matches no route entry is answered 404,
   except that an OPTIONS request is answered 204 by the CORS middleware and a
   request whose path matches a route of its method once the trailing slash is
   removed or added is answered 301 (GET) or 307 (other methods); no step of it
   changes a rate-limit counter, it is never answered 429 or 401, and no
   upstream request is made for it. *)
C21_UnmatchedNeverCounted ==
    /\ [](Unmatched => /\ OutsideTheGroups
                       /\ Done => c.Writer.status =
                                     (CASE SlashRedirected ->
                                             (IF c.Request.Method = "GET" THEN 301 ELSE 307)
                                        [] c.Request.Method = "OPTIONS" -> 204
                                        [] OTHER -> 404))
    /\ [][Unmatched => clients' = clients /\ redisStore' = redisStore]_vars

\* an unmatched request was answered 404 after an earlier request had been counted
C21_Witness ==
    /\ Unmatched /\ Done /\ c.Writer.status = 404
    /\ (clients # NoClients \/ redisStore # NoKeys)

-----------------------------------------------------------------------------
(* The answers of the limiter *)

\* the limiter has answered a request from its count (no store failure)
Answered == last.ip # Empty /\ ~last.err

(* C22: on both backends, for the n-th request of a client key within a window
   and every allowance R the configuration accepts (any integer, 0 included),
   the response carries X-RateLimit-Limit = R and X-RateLimit-Remaining =
   max(0, R - n), never negative, and the request is answered 429 exactly when
   n > R. *)
C22_HeadersAndVerdict ==
    Answered =>
        /\ last.limit = intToString(cfg.Requests)
        /\ last.remaining = intToString(IF cfg.Requests - last.count < 0 THEN 0
                                        ELSE cfg.Requests - last.count)
        /\ (last.status = 429) <=> (last.count > cfg.Requests)

(* C23: on the shared backend a key's window starts at its first increment and
   expires W later: the expiry is set only when the key has none, so no later
   request of the window moves it (and a client that keeps sending is admitted
   again no later than W after the window started). *)
C23_ExpiryNeverExtended ==
    [][\A k \in DOMAIN redisStore \cap DOMAIN redisStore' :
          redisStore[k].exp # -1 => redisStore'[k].exp = redisStore[k].exp]_vars

\* this step is a request of client ip going through the local backend
MemoryStep(ip) == ~cfg.redis /\ served' = served + 1 /\ last'.ip = ip /\ c' = c

(* C24: on the local backend, with W the configured window, a request that
   arrives more than W after the entry's first_seen resets the entry to
   {count 1, first_seen now}; any other request increments the count and leaves
   first_seen unchanged; a key without an entry gets {count 1, first_seen now}. *)
C24_ResetAfterConfiguredWindow ==
    [][\A ip \in IPs : MemoryStep(ip) =>
          clients'[ip] =
             IF ip \notin DOMAIN clients THEN [count |-> 1, lastSeen |-> now]
             ELSE IF now - clients[ip].lastSeen > cfg.Window
                  THEN [count |-> 1, lastSeen |-> now]
                  ELSE [count |-> clients[ip].count + 1, lastSeen |-> clients[ip].lastSeen]]_vars

\* the stored count of client ip, 0 without an entry
StoredCount(cl, ip) == IF ip \in DOMAIN cl THEN cl[ip].count ELSE 0

\* a request of client ip now falls into the window its entry is in, or opens one
InsideWindow(ip) == ip \notin DOMAIN clients \/ ~(now - clients[ip].lastSeen > Minute)

\* this step is a run of the sweeper
SweepStep == ~cfg.redis /\ served' = served /\ now' = now /\ clients' # clients

(* C25: on the local backend, however the requests that share one client key
   inside one window interleave with each other and with the sweeper, no
   increment is lost: each request observes the stored count plus one and
   stores it (k requests: k distinct consecutive values, the stored count ends
   k higher), the sweeper touches no entry of a running window, and a request
   is admitted exactly when allowance remained before it (k requests: exactly
   min(k, remaining allowance) admitted). *)
C25_NoLostIncrement ==
    /\ [][\A ip \in IPs : MemoryStep(ip) /\ InsideWindow(ip) =>
              /\ last'.count = StoredCount(clients, ip) + 1
              /\ StoredCount(clients', ip) = StoredCount(clients, ip) + 1
              /\ (last'.status # 429) <=> (StoredCount(clients, ip) < cfg.Requests)]_vars
    /\ [][SweepStep => \A ip \in DOMAIN clients :
              ~(now - clients[ip].lastSeen > Minute) =>
                  ip \in DOMAIN clients' /\ clients'[ip] = clients[ip]]_vars

(* C28: the sweeper of the local backend is invisible to clients: whenever it
   runs, the next request of every key, at whatever later time, gets the same
   outcome (admitted or 429, X-RateLimit-Remaining) and leaves the same entry
   as it would had the sweeper not run, so every sequence of requests has the
   outcomes of the same sequence with the sweeper runs removed. *)
C28_SweeperInvisible ==
    [][SweepStep => \A ip \in IPs : \A t \in now..MaxTime :
          LET kept == MemoryLimit(clients, ip, t, cfg.Requests)
              swept == MemoryLimit(clients', ip, t, cfg.Requests)
          IN /\ swept.abort = kept.abort
             /\ intToString(swept.remaining) = intToString(kept.remaining)
             /\ swept.clients[ip] = kept.clients[ip]]_vars

-----------------------------------------------------------------------------
(* The key of the limiter *)

\* the counters a step has created or changed
Touched == {k \in DOMAIN clients' : k \notin DOMAIN clients \/ clients'[k] # clients[k]}
           \cup {k \in DOMAIN redisStore' : k \notin DOMAIN redisStore \/ redisStore'[k] # redisStore[k]}

(* C26: in the default configuration the rate-limit key of a request is the
   address of the immediate socket peer: whatever X-Forwarded-For or X-Real-IP
   header the request carries, the only counter it changes is the one of its
   peer address, so two requests of one peer that differ only in these headers
   are counted against the same counter. *)
C26_KeyIsSocketPeer ==
    [][Touched \subseteq {c.Request.RemoteAddr, RateKey(c.Request.RemoteAddr)}]_vars

-----------------------------------------------------------------------------
(* The router and the identity service end to end *)

\* the request went upstream to a route of the identity service behind AuthRequired
ToProtectedIdentity ==
    /\ Forwarded
    /\ c.upstream[1].target = "auth"
    /\ ServiceProtected(c.upstream[1].Method, c.upstream[1].Path)

\* the client sent a three-segment bearer token that ValidateAccessToken rejects
RejectedBearer ==
    LET parts == SplitN2(Get(c.inbound, "Authorization"), " ")
    IN /\ Len(parts) = 2 /\ ToLower(parts[1]) = Str("bearer")
       /\ Len(Split(parts[2], ".")) = 3
       /\ ValidateAccessToken(parts[2], Secret, now).err

\* the identity service has answered and the router has relayed the answer
Answers == Done /\ c.reply # <<>> /\ c.reply[Len(c.reply)].kind = "response"

(* C30: for every request that reaches an identity-service protected route
   through the router with a three-segment bearer token that the identity
   service's ValidateAccessToken rejects, whatever X-User-ID, X-User-Email,
   X-User-Role headers the client added: the identity service's middleware does
   not take the forwarded X-User-* headers as proof, rejects the token itself
   with 401 and sets no user id for a handler, and the answer the client
   receives from the identity service is that 401.  (The router's AuthRequired
   overwrites X-User-Email with the empty e-mail of the placeholder claims, and
   the identity service falls back to the token when that header is empty.) *)
C30_BadTokenIs401EndToEnd ==
    ToProtectedIdentity /\ RejectedBearer =>
        LET auth == ServiceAuthRequired(c.upstream[1].Header, Secret, now)
        IN /\ auth.status = 401
           /\ auth.message = "Invalid or expired token"
           /\ auth.Keys = NoUser
           /\ Answers => c.Writer.status = 401

\* a request with spoofed X-User-* headers and a forged token was answered 401
C30_Witness ==
    /\ ToProtectedIdentity /\ RejectedBearer /\ Answers
    /\ Get(c.inbound, "X-User-ID") # Empty /\ Get(c.inbound, "X-User-Email") # Empty
    /\ c.Writer.status = 401

-----------------------------------------------------------------------------
(* The identity service under concurrent calls *)

MaxCreates == 2
MaxDeletes == 1

UserIDs == {7, 8}

IdentityFrame ==
    UNCHANGED <<cfg, now, clients, redisStore, inflight, admits, served, last, c, srv>>

\* AuthService.CreateAPIKey of user u, run by p, up to the answer of CountByUserID
CreateAPIKeyCount(p, u) ==
    /\ ident.calls[p].pc = "idle"
    /\ ident.creates < MaxCreates
    /\ ident' = [ident EXCEPT !.calls[p] = [pc |-> "counted", user |-> u,
                                            count |-> CountByUserID(ident.api_keys, u)],
                              !.creates = @ + 1]
    /\ IdentityFrame

\* CreateAPIKey from the comparison of the count on: ErrMaxAPIKeysReached, or the INSERT
CreateAPIKeyInsert(p) ==
    /\ ident.calls[p].pc = "counted"
    /\ LET call == ident.calls[p]
       IN ident' = IF call.count >= MaxAPIKeysPerUser
                   THEN [ident EXCEPT !.calls[p] = IdleCall,
                                      !.result = [NoResult EXCEPT !.op = "create",
                                                     !.user_id = call.user,
                                                     !.err = "maximum number of API keys reached"]]
                   ELSE [ident EXCEPT !.calls[p] = IdleCall,
                                      !.api_keys = Create(@, call.user),
                                      !.result = [NoResult EXCEPT !.op = "create",
                                                                  !.user_id = call.user]]
    /\ IdentityFrame

\* AuthService.DeleteAPIKey(userID, keyID): one UPDATE
DeleteAPIKey(u, id) ==
    /\ ident.deletes < MaxDeletes
    /\ LET d == Delete(ident.api_keys, id, u)
       IN ident' = [ident EXCEPT !.api_keys = d.rows, !.deletes = @ + 1,
                                 !.result = [NoResult EXCEPT !.op = "delete", !.user_id = u,
                                                             !.err = d.err]]
    /\ IdentityFrame

\* AuthService.Login of the user with the right password: a token pair
Login(u) ==
    /\ Users[u].IsActive
    /\ LET user == Users[u]
           accessToken == GenerateAccessToken(user.ID, user.Email, user.Role, Secret, ExpiresIn, now)
           refreshToken == GenerateRefreshToken(user.ID, Secret, RefreshExpiresIn, now)
       IN ident' = [ident EXCEPT !.tokens = @ \cup {accessToken, refreshToken},
                                 !.result = [NoResult EXCEPT !.op = "login", !.user_id = u]]
    /\ IdentityFrame

\* tokens somebody may present: the ones handed out, a forged and an expired one
Presentable ==
    ident.tokens \cup {<<"hdrHS256", ".", "payloadAlice", ".", "sigOther">>,
                       <<"hdrHS256", ".", "payloadAliceExpired", ".", "sigSecret">>}

\* POST /api/v1/auth/refresh with refresh_token = token
Refresh(token) ==
    /\ LET r == RefreshToken(token, Secret, now)
       IN ident' = [ident EXCEPT !.tokens = IF r.err = "" THEN @ \cup {r.AccessToken, r.RefreshToken}
                                           ELSE @,
                                 !.result = [NoResult EXCEPT !.op = "refresh", !.presented = token,
                                                !.err = r.err,
                                                !.status = IF r.err = "" THEN 200 ELSE 401]]
    /\ IdentityFrame

\* GET /api/v1/auth/me at the identity service with Authorization: Bearer token
GetCurrentUser(token) ==
    /\ LET a == ServiceAuthRequired(Set(NoHeaders, "Authorization", <<"Bearer", " ">> \o token),
                                    Secret, now)
       IN ident' = [ident EXCEPT !.result = [NoResult EXCEPT !.op = "me", !.presented = token,
                                                !.status = IF a.status = 0 THEN 200 ELSE a.status,
                                                !.user_id = IF a.status = 0 THEN a.Keys.user_id
                                                            ELSE 0]]
    /\ IdentityFrame

InitIdentity ==
    /\ cfg = Config("development", FALSE, 1, Minute)
    /\ now = 0
    /\ clients = NoClients
    /\ redisStore = NoKeys
    /\ inflight = [p \in Procs |-> IdleProc]
    /\ admits = NoAdmits
    /\ served = 0
    /\ last = NoAnswer
    /\ c = NoContext
    /\ srv = Serving(cfg.redis)
    /\ ident \in {[NoIdentity EXCEPT !.api_keys = [i \in 1..n |-> [user_id |-> 7, is_active |-> TRUE]]] :
                     n \in {0, MaxAPIKeysPerUser - 1}}

NextIdentity ==
    \/ \E p \in Callers, u \in UserIDs : CreateAPIKeyCount(p, u)
    \/ \E p \in Callers : CreateAPIKeyInsert(p)
    \/ \E u \in UserIDs, id \in 1..(Len(ident.api_keys) + 1) : DeleteAPIKey(u, id)
    \/ \E u \in DOMAIN Users : Login(u)
    \/ \E token \in Presentable : Refresh(token)
    \/ \E token \in Presentable : GetCurrentUser(token)

SpecIdentity == InitIdentity /\ [][NextIdentity]_vars

(* C27: however CreateAPIKey and DeleteAPIKey calls of one user interleave, the
   user's active API keys never exceed MaxAPIKeysPerUser (10), and a
   CreateAPIKey call that would exceed the limit returns ErrMaxAPIKeysReached
   and inserts nothing. *)
C27_AtMostMaxActiveKeys ==
    /\ [](\A u \in UserIDs : CountByUserID(ident.api_keys, u) <= MaxAPIKeysPerUser)
    /\ [][\A p \in Callers :
             /\ ident.calls[p].pc = "counted" /\ ident'.calls[p].pc = "idle"
             /\ CountByUserID(ident.api_keys, ident.calls[p].user) >= MaxAPIKeysPerUser
             => /\ ident'.api_keys = ident.api_keys
                /\ ident'.result.err = "maximum number of API keys reached"]_vars

\* the tokens GenerateAccessToken and GenerateRefreshToken produce for the users
AccessTokens ==
    {GenerateAccessToken(Users[u].ID, Users[u].Email, Users[u].Role, Secret, ExpiresIn, now) :
        u \in DOMAIN Users}

RefreshTokens ==
    {GenerateRefreshToken(Users[u].ID, Secret, RefreshExpiresIn, now) : u \in DOMAIN Users}

(* C29: the identity service keeps access and refresh tokens apart:
   ValidateRefreshToken accepts only tokens GenerateRefreshToken produced and
   ValidateAccessToken only tokens GenerateAccessToken produced, so RefreshToken
   never issues a token pair when it is given an access token and a refresh
   token never authenticates a request to a protected route. *)
C29_TokenKindsKeptApart ==
    /\ \A token \in Presentable :
          /\ ~ValidateRefreshToken(token, Secret, now).err => token \in RefreshTokens
          /\ ~ValidateAccessToken(token, Secret, now).err => token \in AccessTokens
    /\ ident.result.op = "refresh" /\ ident.result.err = ""
          => ident.result.presented \in RefreshTokens
    /\ ident.result.op = "me" /\ ident.result.status = 200
          => ident.result.presented \in AccessTokens

====
